---------------------------- MODULE Spec2Model ----------------------------
(***************************************************************************)
(* Model of the hybrid recommendation core of luna_assignment:             *)
(*   - GraphDataBuilder   (backend/app/services/graph_data.py)             *)
(*   - GNNTrainer         (backend/app/services/gnn_trainer.py)            *)
(*   - RecommendationEngine.get_venue_recommendations / _get_gnn_score     *)
(*                        (backend/app/services/recommendation.py)         *)
(*                                                                         *)
(* Two specifications are defined:                                         *)
(*   SpecGraph : a GraphDataBuilder working on a growing set of records,   *)
(*               the record readers returning rows in any order;           *)
(*   Spec      : two trainer processes sharing one model directory and one *)
(*               database, and a recommendation engine attached to the     *)
(*               trainer of process 1.                                     *)
(***************************************************************************)
EXTENDS Integers, Sequences, FiniteSets, TLC

(***************************************************************************)
(* Python floats.  Edge weights are IEEE-754 doubles.  A double x with     *)
(* 0 <= x < 64 that is a multiple of 2^-52 is represented exactly by the   *)
(* pair <<hi, lo>> with x = (hi * 2^28 + lo) * 2^-52 and 0 <= lo < 2^28.   *)
(* FAdd is the correctly rounded (round-half-to-even) double addition on   *)
(* that range.                                                             *)
(***************************************************************************)
TwoP24 == 16777216

TwoP28 == 268435456

RECURSIVE Pow2(_)
Pow2(n) == IF n = 0 THEN 1 ELSE 2 * Pow2(n - 1)

\* exponent s of the binade [2^s, 2^(s+1)) holding the integer part v (0 below 2)
RECURSIVE Binade(_)
Binade(v) == IF v < 2 THEN 0 ELSE 1 + Binade(v \div 2)

\* the small non-negative integer n as a double
FInt(n) == <<n * TwoP24, 0>>

FZero == <<0, 0>>

\* float + float, rounded to the nearest double, ties to even mantissa
FAdd(x, y) ==
    LET lo0   == x[2] + y[2]
        hi0   == x[1] + y[1] + (lo0 \div TwoP28)
        lo1   == lo0 % TwoP28
        s     == Binade(hi0 \div TwoP24)
        ulp   == Pow2(s)
        r     == lo1 % ulp
        q     == lo1 \div ulp
        half  == ulp \div 2
        up    == s > 0 /\ (r > half \/ (r = half /\ q % 2 = 1))
        lo2   == (lo1 - r) + (IF up THEN ulp ELSE 0)
    IN  <<hi0 + (lo2 \div TwoP28), lo2 % TwoP28>>

\* int(x) for a non-negative double
FloorInt(x) == x[1] \div TwoP24

Min(a, b) == IF a <= b THEN a ELSE b

Max(a, b) == IF a >= b THEN a ELSE b

(***************************************************************************)
(* Persisted records (the four record readers of graph_data.py).           *)
(* venue_id = 0 stands for NULL, duration = 0 for None (both are falsy in  *)
(* the code), interest_score is in thousandths.                            *)
(***************************************************************************)
NULL == 0

VARIABLES db, builder, out, prev

\* SpecGraph: the rows the tables may hold, in the order they were inserted
GraphInteractionPool ==
    << [id |-> 1, user_id |-> 1, venue_id |-> 1, interaction_type |-> "view",   duration_seconds |-> 1],
       [id |-> 2, user_id |-> 1, venue_id |-> 1, interaction_type |-> "view",   duration_seconds |-> 4],
       [id |-> 3, user_id |-> 1, venue_id |-> 1, interaction_type |-> "view",   duration_seconds |-> 55],
       [id |-> 4, user_id |-> 2, venue_id |-> NULL, interaction_type |-> "search", duration_seconds |-> 0] >>

GraphInterestPool ==
    << [id |-> 1, user_id |-> 2, venue_id |-> 2, interest_score |-> 500, explicitly_interested |-> FALSE] >>

GraphBookingPool ==
    << [id |-> 1, user_id |-> 1, venue_id |-> 1] >>

GraphFriendshipPool ==
    << [id |-> 1, user_id |-> 1, friend_id |-> 2],
       [id |-> 2, user_id |-> 1, friend_id |-> 3] >>

EmptyDb ==
    [interactions |-> {}, interests |-> {}, bookings |-> {}, friendships |-> {}]

(***************************************************************************)
(* Helpers on sequences and dicts.                                         *)
(***************************************************************************)
Range(s) == { s[i] : i \in DOMAIN s }

\* every order in which a reader may return the rows of a table
RECURSIVE Orders(_)
Orders(S) ==
    IF S = {} THEN { << >> }
    ELSE UNION { { <<x>> \o t : t \in Orders(S \ {x}) } : x \in S }

\* the first n elements of a sequence, as a set
Prefix(s, n) == { s[i] : i \in 1..n }

\* sorted(set(...))
RECURSIVE SortedSeq(_)
SortedSeq(S) ==
    IF S = {} THEN << >>
    ELSE LET m == CHOOSE x \in S : \A y \in S : x <= y
         IN  <<m>> \o SortedSeq(S \ {m})

(***************************************************************************)
(* Python dicts.  A dict key is a typed value: the int n and the str "n"   *)
(* are different keys.  IntKey(n) is the int n, StrKey(n) the str whose    *)
(* characters are the decimal digits of n.                                 *)
(***************************************************************************)
IntKey(n) == [type |-> "int", val |-> n]

StrKey(n) == [type |-> "str", val |-> n]

EmptyDict == [k \in {} |-> 0]

\* dict.get(key, default)
DictGet(d, key, default) == IF key \in DOMAIN d THEN d[key] ELSE default

\* for idx, id in enumerate(ids): d[id] = offset + idx    (existing keys are kept)
EnumerateInto(d, ids, offset) ==
    [k \in DOMAIN d \cup { IntKey(id) : id \in Range(ids) } |->
        IF k.val \in Range(ids)
        THEN offset + (CHOOSE i \in DOMAIN ids : ids[i] = k.val) - 1
        ELSE d[k]]

\* for idx, id in enumerate(ids): d[offset + idx] = id    (existing keys are kept)
EnumerateFrom(d, ids, offset) ==
    [k \in DOMAIN d \cup { IntKey(offset + i - 1) : i \in DOMAIN ids } |->
        IF k.val - offset + 1 \in DOMAIN ids THEN ids[k.val - offset + 1] ELSE d[k]]

(***************************************************************************)
(* GraphDataBuilder                                                        *)
(***************************************************************************)
\* GraphDataBuilder.__init__
NewBuilder ==
    [user_id_to_idx |-> EmptyDict, venue_id_to_idx |-> EmptyDict,
     idx_to_user_id |-> EmptyDict, idx_to_venue_id |-> EmptyDict,
     num_users |-> 0, num_venues |-> 0]

\* GROUP BY key HAVING count(id) >= min_interactions
GroupHaving(rows, key, min_interactions) ==
    { r[key] : r \in { x \in rows :
          Cardinality({ y \in rows : y[key] = x[key] }) >= min_interactions } }

\* GraphDataBuilder._build_id_mappings
build_id_mappings(b, d, min_interactions) ==
    LET active_user_ids    == GroupHaving(d.interactions, "user_id", min_interactions)
        interest_user_ids  == { r.user_id : r \in d.interests }
        all_user_ids       == SortedSeq(active_user_ids \cup interest_user_ids)
        active_venue_ids   == GroupHaving({ r \in d.interactions : r.venue_id # NULL },
                                          "venue_id", min_interactions)
        interest_venue_ids == { r.venue_id : r \in d.interests }
        all_venue_ids      == SortedSeq(active_venue_ids \cup interest_venue_ids)
        nu                 == Len(all_user_ids)
    IN  [user_id_to_idx  |-> EnumerateInto(b.user_id_to_idx, all_user_ids, 0),
         idx_to_user_id  |-> EnumerateFrom(b.idx_to_user_id, all_user_ids, 0),
         venue_id_to_idx |-> EnumerateInto(b.venue_id_to_idx, all_venue_ids, nu),
         idx_to_venue_id |-> EnumerateFrom(b.idx_to_venue_id, all_venue_ids, nu),
         num_users       |-> nu,
         num_venues      |-> Len(all_venue_ids)]

\* interaction_weights (graph_data.py), as doubles
interaction_weights ==
    [view |-> FInt(1), save |-> FInt(3), share |-> FInt(2),
     like |-> <<41943040, 0>>, review |-> FInt(4)]

\* the double 1.0 + min(duration / 60.0, 2.0), for the durations the pools use
ViewWeight(duration) ==
    CASE duration = 1   -> <<17056836, 71582788>>      \* 1.0166666666666666
      [] duration = 4   -> <<17895697, 17895697>>      \* 1.0666666666666667
      [] duration = 55  -> <<32156330, 178956970>>     \* 1.9166666666666665
      [] duration = 30  -> <<25165824, 0>>             \* 1.5
      [] duration = 60  -> FInt(2)
      [] duration = 300 -> FInt(3)

\* weight of one interaction row
InteractionWeight(row) ==
    IF row.interaction_type = "view" /\ row.duration_seconds # 0
    THEN ViewWeight(row.duration_seconds)
    ELSE DictGet(interaction_weights, row.interaction_type, FInt(1))

\* the double interest_score * 3.0, for the scores the pools use (thousandths)
InterestTimes3(interest_score) ==
    CASE interest_score = 0    -> FZero
      [] interest_score = 500  -> <<25165824, 0>>      \* 1.5
      [] interest_score = 1000 -> FInt(3)

\* weight of one venue-interest row
InterestWeight(row) ==
    IF row.explicitly_interested THEN FInt(5) ELSE InterestTimes3(row.interest_score)

\* edge_weights[edge_key] = edge_weights.get(edge_key, 0.0) + weight
\* (a dict keeps its keys in insertion order: keys is that order)
AddEdgeWeight(acc, edge_key, weight) ==
    IF edge_key \in DOMAIN acc.w
    THEN [acc EXCEPT !.w[edge_key] = FAdd(@, weight)]
    ELSE [keys |-> Append(acc.keys, edge_key),
          w    |-> [k \in DOMAIN acc.w \cup {edge_key} |->
                       IF k = edge_key THEN FAdd(FZero, weight) ELSE acc.w[k]]]

\* one of the three "for row in ....all()" loops of _build_user_venue_edges
RECURSIVE AccumulateRows(_, _, _, _)
AccumulateRows(acc, rows, b, kind) ==
    IF rows = << >> THEN acc
    ELSE LET row  == Head(rows)
             next ==
                 IF IntKey(row.user_id) \notin DOMAIN b.user_id_to_idx
                    \/ IntKey(row.venue_id) \notin DOMAIN b.venue_id_to_idx
                 THEN acc
                 ELSE AddEdgeWeight(acc,
                         <<b.user_id_to_idx[IntKey(row.user_id)],
                           b.venue_id_to_idx[IntKey(row.venue_id)]>>,
                         CASE kind = "interaction" -> InteractionWeight(row)
                           [] kind = "interest"    -> InterestWeight(row)
                           [] kind = "booking"     -> FInt(10))
         IN  AccumulateRows(next, Tail(rows), b, kind)

\* num_edges = max(1, int(weight)); range(min(num_edges, 10))
EdgesPerPair(weight) == Min(Max(1, FloorInt(weight)), 10)

\* n copies of edge e
RECURSIVE Repeat(_, _)
Repeat(e, n) == IF n <= 0 THEN << >> ELSE <<e>> \o Repeat(e, n - 1)

\* for (user_idx, venue_idx), weight in edge_weights.items(): ...
RECURSIVE MaterializeEdges(_, _)
MaterializeEdges(keys, w) ==
    IF keys = << >> THEN << >>
    ELSE Repeat(Head(keys), EdgesPerPair(w[Head(keys)])) \o MaterializeEdges(Tail(keys), w)

\* the WHERE clause shared by the three queries: both ids among the mapped ids
InMappedIds(row, b) ==
    /\ IntKey(row.user_id) \in DOMAIN b.user_id_to_idx
    /\ IntKey(row.venue_id) \in DOMAIN b.venue_id_to_idx

\* GraphDataBuilder._build_user_venue_edges; rows are the reader's results in
\* the order the reader returned them
build_user_venue_edges(b, rows) ==
    LET sel(r)  == r.venue_id # NULL /\ InMappedIds(r, b)
        a1 == AccumulateRows([keys |-> << >>, w |-> EmptyDict],
                             SelectSeq(rows.interactions, sel), b, "interaction")
        a2 == AccumulateRows(a1, SelectSeq(rows.interests, sel), b, "interest")
        a3 == AccumulateRows(a2, SelectSeq(rows.bookings, sel), b, "booking")
    IN  MaterializeEdges(a3.keys, a3.w)

\* GraphDataBuilder._build_user_user_edges
RECURSIVE build_user_user_edges(_, _)
build_user_user_edges(b, friendships) ==
    IF friendships = << >> THEN << >>
    ELSE LET row == Head(friendships)
             rest == build_user_user_edges(b, Tail(friendships))
             u   == IntKey(row.user_id)
             f   == IntKey(row.friend_id)
         IN  IF u \in DOMAIN b.user_id_to_idx /\ f \in DOMAIN b.user_id_to_idx
             THEN << <<b.user_id_to_idx[u], b.user_id_to_idx[f]>>,
                     <<b.user_id_to_idx[f], b.user_id_to_idx[u]>> >> \o rest
             ELSE rest

\* the tables a set of rows (in reader order) was read from
RowsToDb(rows) ==
    [interactions |-> Range(rows.interactions), interests |-> Range(rows.interests),
     bookings |-> Range(rows.bookings), friendships |-> Range(rows.friendships)]

\* GraphDataBuilder.build_graph: the builder after the call, the edge_index
\* (a sequence of <<source, target>>) and the metadata dict
build_graph(b, rows, min_interactions, include_friendships) ==
    LET b1 == build_id_mappings(b, RowsToDb(rows), min_interactions)
        user_venue_edges == build_user_venue_edges(b1, rows)
        user_user_edges  == IF include_friendships
                            THEN build_user_user_edges(b1, rows.friendships)
                            ELSE << >>
        all_edges == user_venue_edges \o user_user_edges
    IN  IF b1.num_users = 0 \/ b1.num_venues = 0
        THEN [builder |-> b1, edge_index |-> << >>,
              metadata |-> [num_users |-> 0, num_venues |-> 0, num_edges |-> 0]]
        ELSE IF Len(all_edges) = 0
        THEN [builder |-> b1, edge_index |-> << >>,
              metadata |-> [num_users |-> b1.num_users, num_venues |-> b1.num_venues,
                            num_edges |-> 0]]
        ELSE [builder |-> b1, edge_index |-> all_edges,
              metadata |-> [num_users |-> b1.num_users, num_venues |-> b1.num_venues,
                            num_edges |-> Len(all_edges),
                            num_user_venue_edges |-> Len(user_venue_edges),
                            num_user_user_edges |-> Len(user_user_edges),
                            id_mappings |->
                                [user_id_to_idx  |-> b1.user_id_to_idx,
                                 venue_id_to_idx |-> b1.venue_id_to_idx,
                                 idx_to_user_id  |-> b1.idx_to_user_id,
                                 idx_to_venue_id |-> b1.idx_to_venue_id]]]

(***************************************************************************)
(* SpecGraph: over any database of GraphDbs, builders are                  *)
(* constructed and build_graph is called (possibly several times on one    *)
(* builder), the readers returning the rows in any order.  out and prev    *)
(* are the results of the last two build_graph calls.                      *)
(***************************************************************************)
NoBuild == [kind |-> "none"]

MinInteractionsChoices == {1, 2}

\* metadata["id_mappings"] holds the builder's own dicts, not copies: a later
\* build_graph on the same builder shows through an earlier result
Alias(o, b) ==
    IF o.kind = "none" \/ "id_mappings" \notin DOMAIN o.metadata THEN o
    ELSE [o EXCEPT !.metadata.id_mappings =
              [user_id_to_idx  |-> b.user_id_to_idx,
               venue_id_to_idx |-> b.venue_id_to_idx,
               idx_to_user_id  |-> b.idx_to_user_id,
               idx_to_venue_id |-> b.idx_to_venue_id]]

\* every database holding the first rows of each pool
GraphDbs ==
    { [interactions |-> Prefix(GraphInteractionPool, i), interests |-> Prefix(GraphInterestPool, n),
       bookings |-> Prefix(GraphBookingPool, k), friendships |-> Prefix(GraphFriendshipPool, f)] :
        i \in 0..Len(GraphInteractionPool), n \in 0..Len(GraphInterestPool),
        k \in 0..Len(GraphBookingPool), f \in 0..Len(GraphFriendshipPool) }

InitGraph ==
    /\ db \in GraphDbs
    /\ builder = [obj |-> NewBuilder, fresh |-> TRUE]
    /\ out = NoBuild
    /\ prev = NoBuild

\* builder = GraphDataBuilder(db)
ConstructBuilder ==
    /\ ~builder.fresh
    /\ builder' = [obj |-> NewBuilder, fresh |-> TRUE]
    /\ UNCHANGED <<db, out, prev>>

\* await builder.build_graph(min_interactions, include_friendships)
BuildGraph(min_interactions, include_friendships) ==
    \E oi \in Orders(db.interactions), on \in Orders(db.interests),
       ob \in Orders(db.bookings), of \in Orders(db.friendships) :
        \E res \in {build_graph(builder.obj,
                                [interactions |-> oi, interests |-> on,
                                 bookings |-> ob, friendships |-> of],
                                min_interactions, include_friendships)} :
            /\ builder' = [obj |-> res.builder, fresh |-> FALSE]
            /\ out' = [kind |-> "built", edge_index |-> res.edge_index,
                       metadata |-> res.metadata,
                       min_interactions |-> min_interactions,
                       include_friendships |-> include_friendships,
                       fresh |-> builder.fresh]
            /\ prev' = IF builder.fresh THEN out ELSE Alias(out, res.builder)
            /\ UNCHANGED db

(***************************************************************************)
(* RecommendationEngine: venue scoring.                                    *)
(* Scores are fixed-point numbers in millionths (1.0 = 1000000); latitudes *)
(* and longitudes are in hundredths of a degree, NoCoord standing for None; *)
(* distances are in metres.                                                *)
(***************************************************************************)
One == 1000000

\* Python None, for the values that are objects or None
None == [py |-> "None"]

\* gnn_score = None
NoScore == -1

\* latitude = None / longitude = None (a value no coordinate takes)
NoCoord == 100000

\* "if x" on a coordinate: None and 0.0 are both falsy
Truthy(x) == x # NoCoord /\ x # 0

\* settings.MAX_DISTANCE_KM
MAX_DISTANCE_KM == 50

\* users table and user_preferences table (entity attribute reader)
Users ==
    { [id |-> 1, latitude |-> 4070, longitude |-> -7400,
       preferences |-> [max_distance |-> 10, min_price_level |-> 1, max_price_level |-> 2,
                        cuisine_preferences |-> {"italian"}]],
      [id |-> 2, latitude |-> NoCoord, longitude |-> NoCoord, preferences |-> None] }

\* venues table, in the order select(Venue) returns it
Venues ==
    << [id |-> 1, latitude |-> 4072, longitude |-> -7400, category |-> "restaurant",
        cuisine_type |-> "italian", price_level |-> 2, rating |-> 4500,
        popularity_score |-> 800000, trending |-> TRUE],
       [id |-> 2, latitude |-> 4170, longitude |-> -7400, category |-> "restaurant",
        cuisine_type |-> "french", price_level |-> 4, rating |-> 4000,
        popularity_score |-> 500000, trending |-> FALSE],
       [id |-> 3, latitude |-> 4071, longitude |-> -7400, category |-> "bar",
        cuisine_type |-> "american", price_level |-> 1, rating |-> 3000,
        popularity_score |-> 500000, trending |-> FALSE] >>

Abs(x) == IF x < 0 THEN -x ELSE x

\* RecommendationEngine.haversine_distance, in metres, for two points on one
\* meridian (all modelled entities share a longitude): R * |delta_lat| with
\* R = 6371 km, i.e. 1112 m per hundredth of a degree
haversine_distance(lat1, lon1, lat2, lon2) == Abs(lat2 - lat1) * 1112

\* sum(weights) and sum(s * w for s, w in zip(scores, weights)); a factor is <<score, weight>>
RECURSIVE SumWeights(_)
SumWeights(fs) == IF fs = << >> THEN 0 ELSE Head(fs)[2] + SumWeights(Tail(fs))

RECURSIVE WeightedSum(_)
WeightedSum(fs) == IF fs = << >> THEN 0 ELSE Head(fs)[1] * Head(fs)[2] + WeightedSum(Tail(fs))

\* RecommendationEngine._calculate_venue_score (weights in hundredths)
calculate_venue_score(user, preferences, venue) ==
    LET has_location == Truthy(user.latitude) /\ Truthy(user.longitude)
        distance     == haversine_distance(user.latitude, user.longitude,
                                           venue.latitude, venue.longitude)
        max_distance == IF preferences # None THEN preferences.max_distance
                        ELSE MAX_DISTANCE_KM
        f_distance   == IF has_location
                        THEN << <<One - (distance * 1000) \div max_distance, 30>> >>
                        ELSE << >>
        f_price      == IF preferences # None
                        THEN << <<IF preferences.min_price_level <= venue.price_level
                                     /\ venue.price_level <= preferences.max_price_level
                                  THEN One ELSE 300000, 15>> >>
                        ELSE << >>
        f_rating     == << <<(venue.rating * 1000) \div 5, 20>> >>
        f_popularity == << <<venue.popularity_score, 10>> >>
        f_cuisine    == IF preferences # None /\ preferences.cuisine_preferences # {}
                        THEN << <<IF venue.cuisine_type \in preferences.cuisine_preferences
                                  THEN One ELSE 500000, 15>> >>
                        ELSE << >>
        f_trending   == << <<IF venue.trending THEN One ELSE 500000, 10>> >>
        factors      == f_distance \o f_price \o f_rating \o f_popularity
                        \o f_cuisine \o f_trending
    IN  IF has_location /\ distance > max_distance * 1000 THEN 0
        ELSE IF factors = << >> THEN 500000
        ELSE WeightedSum(factors) \div SumWeights(factors)

(***************************************************************************)
(* LightGCN and the trainer's prediction path.                             *)
(* A model is [num_users, num_venues, num_nodes, embedding_dim,            *)
(* num_layers, weights, training]; its weights are not modelled            *)
(* numerically: weights = [run, trained] names the train() invocation that *)
(* initialised them (each initialisation is random, so no two invocations  *)
(* share weights) and whether                                              *)
(* the optimisation loop ran on them.  A tensor of edges is                *)
(* [tensor |-> sequence of <<source, target>>].                            *)
(***************************************************************************)
\* GNNTrainer.__init__ defaults
embedding_dim_default == 64

num_layers_default == 3

epochs_default == 100

\* LightGCN.__init__ (nn.Module starts in training mode)
LightGCN(num_users, num_venues, embedding_dim, num_layers, weights) ==
    [num_users |-> num_users, num_venues |-> num_venues,
     num_nodes |-> num_users + num_venues,
     embedding_dim |-> embedding_dim, num_layers |-> num_layers,
     weights |-> weights, training |-> TRUE]

\* LightGCN.forward / _propagate raise (scatter_add_ index out of range, a
\* RuntimeError) when a propagation layer runs over an edge whose endpoint is
\* not a node of the model
ForwardRaises(model, edge_index) ==
    /\ model.num_layers > 0
    /\ \E i \in DOMAIN edge_index.tensor :
          \/ edge_index.tensor[i][1] >= model.num_nodes
          \/ edge_index.tensor[i][2] >= model.num_nodes

\* values torch.sigmoid(score).item() may take, in millionths
SigmoidValues == <<0, 268941, 500000, 731059, One>>

\* sigmoid of the dot product of the propagated embeddings of a user and a
\* venue: a fixed function of the weights, the edge list and the two
\* indices, standing for the float computation
SigmoidAffinity(model, edge_index, user_idx, venue_graph_idx) ==
    SigmoidValues[((2 * model.weights.run
                    + (IF model.weights.trained THEN 1 ELSE 0)
                    + Len(edge_index.tensor) + user_idx + 3 * venue_graph_idx)
                   % Len(SigmoidValues)) + 1]

\* GNNTrainer.predict_user_venue_scores for one venue index: the exception it
\* raises ("" if none), whether model.eval() was reached, and the sigmoid of
\* the score
predict_user_venue_scores(tr, user_idx, venue_graph_idx) ==
    IF tr.model = None THEN [exc |-> "ValueError", evaled |-> FALSE, sigmoid |-> 0]
    ELSE IF tr.edge_index = None THEN [exc |-> "ValueError", evaled |-> FALSE, sigmoid |-> 0]
    ELSE IF user_idx < 0 \/ user_idx >= tr.model.num_users
    THEN [exc |-> "ValueError", evaled |-> FALSE, sigmoid |-> 0]
    ELSE IF venue_graph_idx < 0 \/ venue_graph_idx >= tr.model.num_venues
    THEN [exc |-> "ValueError", evaled |-> FALSE, sigmoid |-> 0]
    ELSE IF ForwardRaises(tr.model, tr.edge_index)
    THEN [exc |-> "RuntimeError", evaled |-> TRUE, sigmoid |-> 0]
    ELSE [exc |-> "", evaled |-> TRUE,
          sigmoid |-> SigmoidAffinity(tr.model, tr.edge_index, user_idx, venue_graph_idx)]

\* the except clauses without the final "except Exception" (C3 fails of it)
GnnScoreHandles_mut(exc) == exc \in {"KeyError", "IndexError"}

\* the except clauses of _get_gnn_score: KeyError, IndexError, Exception
GnnScoreHandles(exc) == exc \in {"KeyError", "IndexError", "ValueError", "RuntimeError"}

\* RecommendationEngine._get_gnn_score.  engine = [use_gnn, gnn_trainer];
\* result: value returned, where it came from ("neutral" for the 0.5
\* fallback, "model" for a queried score), the exception that escaped
\* ("" if none), whether the trainer's model was put in eval mode, and the
\* exception an except clause caught ("" if none)
get_gnn_score(engine, user_id, venue_id) ==
    LET tr       == engine.gnn_trainer
        neutral  == [value |-> 500000, src |-> "neutral", raised |-> "", evaled |-> FALSE,
                     caught |-> ""]
    IN  IF ~engine.use_gnn \/ tr = None THEN neutral
        ELSE IF tr.model = None THEN neutral
        ELSE IF tr.edge_index = None THEN neutral
        ELSE IF tr.metadata = None THEN neutral
        ELSE
        LET id_mappings     == DictGet(tr.metadata, "id_mappings", EmptyDict)
            user_id_to_idx  == DictGet(id_mappings, "user_id_to_idx", EmptyDict)
            venue_id_to_idx == DictGet(id_mappings, "venue_id_to_idx", EmptyDict)
            num_users       == DictGet(tr.metadata, "num_users", 0)
            num_venues      == DictGet(tr.metadata, "num_venues", 0)
        IN  IF DOMAIN user_id_to_idx = {} \/ DOMAIN venue_id_to_idx = {} THEN neutral
            ELSE IF IntKey(user_id) \notin DOMAIN user_id_to_idx THEN neutral
            ELSE IF IntKey(venue_id) \notin DOMAIN venue_id_to_idx THEN neutral
            ELSE
            LET user_idx        == user_id_to_idx[IntKey(user_id)]
                venue_idx       == venue_id_to_idx[IntKey(venue_id)]
                venue_graph_idx == venue_idx - num_users
                p == predict_user_venue_scores(tr, user_idx, venue_graph_idx)
            IN  IF venue_idx < num_users THEN neutral
                ELSE IF venue_graph_idx < 0 \/ venue_graph_idx >= num_venues THEN neutral
                ELSE IF p.exc # ""
                THEN IF GnnScoreHandles(p.exc)
                     THEN [neutral EXCEPT !.evaled = p.evaled, !.caught = p.exc]
                     ELSE [value |-> 0, src |-> "none", raised |-> p.exc, evaled |-> p.evaled,
                           caught |-> ""]
                ELSE [value |-> Max(0, Min(One, p.sigmoid)), src |-> "model",
                      raised |-> "", evaled |-> TRUE, caught |-> ""]

\* round(x, 3) on a score in millionths
Round3(x) ==
    LET q == x \div 1000
        r == x % 1000
    IN  IF r > 500 \/ (r = 500 /\ q % 2 = 1) THEN (q + 1) * 1000 ELSE q * 1000

\* the guard without its "model is not None" test (C2 fails of it)
GnnBranchTaken_mut(engine) == engine.use_gnn

\* the guard of the GNN branch of get_venue_recommendations
GnnBranchTaken(engine) == engine.use_gnn /\ engine.gnn_trainer.model # None

\* final_score = 0.7 * rule_score + 0.3 * gnn_score if gnn_score is not None
\* else rule_score, and the scored_venues entry built from it; g is what the
\* GNN branch produced (value NoScore when the branch was not taken)
ScoredEntry(venue, rule_score, g) ==
    LET gnn_score == IF g.raised = "" THEN g.value ELSE NoScore
    IN  [id |-> venue.id,
         final_score |-> IF gnn_score # NoScore
                         THEN (7 * rule_score + 3 * gnn_score) \div 10
                         ELSE rule_score,
         rule_score |-> rule_score,
         gnn_score |-> IF gnn_score # NoScore THEN Round3(gnn_score) ELSE NoScore,
         raw_gnn_score |-> gnn_score,
         gnn_src |-> IF gnn_score # NoScore THEN g.src ELSE "none",
         evaled |-> g.evaled]

\* the body of "for venue in venues": the scored_venues entry of one venue
\* (final_score is the unrounded score, raw_gnn_score the unrounded GNN score,
\* gnn_src tells a queried score from the 0.5 fallback, evaled whether the
\* model was put in eval mode)
ScoreVenue(engine, user, venue) ==
    ScoredEntry(venue,
                calculate_venue_score(user, user.preferences, venue),
                IF GnnBranchTaken(engine)
                THEN get_gnn_score(engine, user.id, venue.id)
                ELSE [value |-> NoScore, src |-> "none", raised |-> "", evaled |-> FALSE,
                      caught |-> ""])

\* venue_query with the optional category / min_rating filters
FilterVenues(filters) ==
    SelectSeq(Venues, LAMBDA v :
        filters = None
        \/ /\ (filters.category = "" \/ v.category = filters.category)
           /\ (filters.min_rating = 0 \/ v.rating >= filters.min_rating))

\* the entry of every venue of the query, in venue order
EveryVenue(engine, user, venues) ==
    [i \in DOMAIN venues |-> ScoreVenue(engine, user, venues[i])]

\* scored_venues: the entries with final_score > 0, in venue order
ScoredVenues(every) == SelectSeq(every, LAMBDA e : e.final_score > 0)

\* the position list.sort(key=score, reverse=True) gives element i of s:
\* after the higher scores and after the equal scores that precede it
SortRank(s, i) ==
    Cardinality({ j \in DOMAIN s : s[j].final_score > s[i].final_score })
    + Cardinality({ j \in 1..i : s[j].final_score = s[i].final_score })

\* a sort that leaves the list in query order
SortByScoreDesc_mut(s) == s

\* list.sort(key=score, reverse=True): stable, descending
SortByScoreDesc(s) ==
    [k \in DOMAIN s |-> s[CHOOSE i \in DOMAIN s : SortRank(s, i) = k]]

\* the dicts returned for scored_venues[:limit] (each keeps, next to the
\* rounded fields the code returns, the unrounded final_score and the scores
\* it was computed from)
ReturnedItems(sorted, limit) ==
    [i \in 1..Min(limit, Len(sorted)) |->
        [id |-> sorted[i].id,
         score |-> Round3(sorted[i].final_score),
         rule_score |-> Round3(sorted[i].rule_score),
         gnn_score |-> sorted[i].gnn_score,
         final_score |-> sorted[i].final_score,
         raw_rule_score |-> sorted[i].rule_score,
         raw_gnn_score |-> sorted[i].raw_gnn_score,
         gnn_src |-> sorted[i].gnn_src]]

\* the result of get_venue_recommendations from the entries of the loop,
\* and whether the shared model was put in eval mode
RecommendationsOf(every, limit) ==
    [items  |-> ReturnedItems(SortByScoreDesc(ScoredVenues(every)), limit),
     evaled |-> \E i \in DOMAIN every : every[i].evaled]

\* RecommendationEngine.get_venue_recommendations
get_venue_recommendations(engine, user_id, limit, filters) ==
    IF \A u \in Users : u.id # user_id THEN [items |-> << >>, evaled |-> FALSE]
    ELSE RecommendationsOf(EveryVenue(engine, CHOOSE u \in Users : u.id = user_id,
                                      FilterVenues(filters)),
                           limit)

(***************************************************************************)
(***************************************************************************)
(* GNNTrainer.                                                             *)
(* Spec runs Tasks coroutines.  Tasks 1 and 2 run in process 1 on its      *)
(* trainer, task 3 in process 2 on its own trainer; the processes share    *)
(* the model directory (disk) and the database.  A coroutine yields only   *)
(* at an await that suspends: the database reads of build_graph.  Inside a *)
(* process nothing else runs between two such points (pcs of SyncPcs);     *)
(* another process can run there, between two file operations.             *)
(* Ghost state: origin records, for each attribute of a trainer, the       *)
(* train()/load_model() invocation (op) that assigned it and the training  *)
(* run its content comes from (for a model, also whether that invocation   *)
(* builds the graph; for metadata read from a file, also the dict that was *)
(* saved to it); diskRun the run each file comes from and the dict         *)
(* json.dump was given.                                                    *)
(* Invocations are numbered from 1; run 0 is a training run that completed *)
(* before the behaviour starts.                                            *)
(***************************************************************************)
VARIABLES disk, trainer, origin, diskRun, pc, loc, ret, opCtr, obs

Tasks == {1, 2, 3}

Procs == {1, 2}

TaskProc(t) == IF t = 3 THEN 2 ELSE 1

\* most train()/load_model() invocations in a behaviour
MaxOps == 2

SyncPcs == {"save_meta", "load_ckpt"}

\* GNNTrainer.__init__
NewTrainer == [model |-> None, edge_index |-> None, metadata |-> None]

\* rows of a table in insertion (id) order
RECURSIVE ById(_)
ById(S) ==
    IF S = {} THEN << >>
    ELSE LET m == CHOOSE x \in S : \A y \in S : x.id <= y.id
         IN  <<m>> \o ById(S \ {m})

\* what the four readers return (Spec: in insertion order)
ReadRows(d) ==
    [interactions |-> ById(d.interactions), interests |-> ById(d.interests),
     bookings |-> ById(d.bookings), friendships |-> ById(d.friendships)]

\* GNNTrainer._prepare_training_pairs: the positive pairs, one per
\* user->venue edge, as <<user index, venue index>>
prepare_training_pairs(edge_index, num_users, num_venues) ==
    LET user_venue_edges == SelectSeq(edge_index,
                                LAMBDA e : e[1] < num_users /\ e[2] >= num_users)
    IN  [i \in DOMAIN user_venue_edges |->
            <<user_venue_edges[i][1], user_venue_edges[i][2] - num_users>>]

\* the two asserts of _prepare_training_pairs
PairsValid(positive_pairs, num_users, num_venues) ==
    \A i \in DOMAIN positive_pairs :
        /\ positive_pairs[i][1] >= 0 /\ positive_pairs[i][1] < num_users
        /\ positive_pairs[i][2] >= 0 /\ positive_pairs[i][2] < num_venues

\* train(): "if edge_index.shape[1] == 0: raise ValueError"
NoEdges(edge_index) == Len(edge_index) = 0

\* train() without its positive-pairs check (C6 fails of it)
NoPositivePairs_mut(positive_pairs) == FALSE

\* train(): "if len(positive_pairs) == 0: raise ValueError"
NoPositivePairs(positive_pairs) == Len(positive_pairs) = 0

\* a JSON object has str keys only: json.dump writes an int key n as the str
\* "n", and json.load returns every key as the str it reads
JsonObject(d) ==
    [k \in { StrKey(x.val) : x \in DOMAIN d } |->
        d[CHOOSE x \in DOMAIN d : x.val = k.val]]

\* json.dump(self.metadata, f): the document written to gnn_metadata.json
JsonDump(metadata) ==
    IF "id_mappings" \notin DOMAIN metadata THEN metadata
    ELSE [metadata EXCEPT !.id_mappings =
             [user_id_to_idx  |-> JsonObject(@.user_id_to_idx),
              venue_id_to_idx |-> JsonObject(@.venue_id_to_idx),
              idx_to_user_id  |-> JsonObject(@.idx_to_user_id),
              idx_to_venue_id |-> JsonObject(@.idx_to_venue_id)]]

\* json.load(f): the dict read from gnn_metadata.json (no object_hook: the
\* keys of every object stay str)
JsonLoad(doc) ==
    IF "id_mappings" \notin DOMAIN doc THEN doc
    ELSE [doc EXCEPT !.id_mappings =
             [name \in DOMAIN @ |-> JsonObject(@[name])]]

\* the dict torch.save writes to lightgcn.pt
Checkpoint(tr) ==
    [model_state_dict |-> tr.model.weights,
     embedding_dim |-> tr.model.embedding_dim, num_layers |-> tr.model.num_layers,
     num_users |-> tr.metadata.num_users, num_venues |-> tr.metadata.num_venues]

\* the trainer attributes train() has assigned when its optimisation loop
\* starts (trained = FALSE) or has ended (trained = TRUE), for the graph g
\* and the invocation op
Trained(g, op, trained) ==
    [model |-> LightGCN(g.metadata.num_users, g.metadata.num_venues,
                        embedding_dim_default, num_layers_default,
                        [run |-> op, trained |-> trained]),
     edge_index |-> [tensor |-> g.edge_index],
     metadata |-> g.metadata]

NoLoc ==
    [op |-> 0, min_interactions |-> 0, include_friendships |-> FALSE,
     save_model |-> FALSE, rebuild_graph |-> FALSE, caller |-> ""]

\* what the last finished (or running) invocation returned or raised
NoRet ==
    [call |-> "", op |-> 0, status |-> "", num_edges |-> 0, num_pairs |-> 0,
     epochs_run |-> 0, missing |-> FALSE]

NoOrigin ==
    [model |-> [op |-> 0, run |-> 0, by |-> "", rebuild |-> FALSE],
     metadata |-> [op |-> 0, run |-> 0, by |-> "", saved |-> None],
     edge_index |-> [op |-> 0]]

\* the event loop of task t's process is free: no other task of the process
\* is between two awaits
LoopFree(t) ==
    \A u \in Tasks \ {t} : TaskProc(u) = TaskProc(t) => pc[u] \notin SyncPcs

\* invocation op has returned or raised (ghost)
Completed(op) == op # 0 /\ \A t \in Tasks : loc[t].op # op

\* obs: the response of the request served by the last step, if it was one
NoObs == [kind |-> "none"]

vars == <<db, builder, out, prev, disk, trainer, origin, diskRun, pc, loc, ret, opCtr, obs>>

graphVars == <<builder, out, prev>>

coreVars == <<disk, trainer, origin, diskRun, pc, loc, ret, opCtr>>

trainVars == <<coreVars, obs>>

\* await trainer.train(min_interactions, include_friendships, save_model):
\* up to the first database read of build_graph
TrainStart(t, min_interactions, include_friendships, save_model) ==
    /\ pc[t] = "idle" /\ LoopFree(t) /\ opCtr < MaxOps
    /\ opCtr' = opCtr + 1
    /\ pc' = [pc EXCEPT ![t] = "train_build"]
    /\ loc' = [loc EXCEPT ![t] =
                  [op |-> opCtr + 1, min_interactions |-> min_interactions,
                   include_friendships |-> include_friendships,
                   save_model |-> save_model, rebuild_graph |-> FALSE, caller |-> "train"]]
    /\ obs' = NoObs
    /\ UNCHANGED <<db, graphVars, disk, trainer, origin, diskRun, ret>>

\* train() from the return of build_graph to torch.save (or to its end):
\* lines 91-255 run without suspending
TrainBuilt(t) ==
    /\ pc[t] = "train_build" /\ LoopFree(t)
    /\ \E g \in {build_graph(NewBuilder, ReadRows(db), loc[t].min_interactions,
                               loc[t].include_friendships)} :
       \E pairs \in {prepare_training_pairs(g.edge_index, g.metadata.num_users,
                                            g.metadata.num_venues)} :
       \E valid \in {PairsValid(pairs, g.metadata.num_users, g.metadata.num_venues)} :
       \E tr \in {Trained(g, loc[t].op, valid /\ ~NoPositivePairs(pairs))} :
       \E r \in {[call |-> "train", op |-> loc[t].op, status |-> "ValueError",
                   num_edges |-> Len(g.edge_index), num_pairs |-> Len(pairs),
                   epochs_run |-> 0, missing |-> FALSE]} :
       \E or0 \in {[model |-> [op |-> loc[t].op, run |-> loc[t].op, by |-> "train",
                                rebuild |-> TRUE],
                     metadata |-> [op |-> loc[t].op, run |-> loc[t].op, by |-> "train",
                                   saved |-> None],
                     edge_index |-> [op |-> loc[t].op]]} :
           IF NoEdges(g.edge_index)
           THEN /\ ret' = r
                /\ pc' = [pc EXCEPT ![t] = "idle"]
                /\ loc' = [loc EXCEPT ![t] = NoLoc]
                /\ UNCHANGED <<trainer, origin, disk, diskRun>>
           ELSE IF ~valid \/ NoPositivePairs(pairs)
           THEN /\ trainer' = [trainer EXCEPT ![TaskProc(t)] = tr]
                /\ origin' = [origin EXCEPT ![TaskProc(t)] = or0]
                /\ ret' = [r EXCEPT !.status = IF valid THEN "ValueError"
                                               ELSE "AssertionError"]
                /\ pc' = [pc EXCEPT ![t] = "idle"]
                /\ loc' = [loc EXCEPT ![t] = NoLoc]
                /\ UNCHANGED <<disk, diskRun>>
           ELSE /\ trainer' = [trainer EXCEPT ![TaskProc(t)] = tr]
                /\ origin' = [origin EXCEPT ![TaskProc(t)] = or0]
                /\ IF loc[t].save_model
                   THEN /\ disk' = [disk EXCEPT !.pt = Checkpoint(tr)]
                        /\ diskRun' = [diskRun EXCEPT !.pt = loc[t].op]
                        /\ ret' = [r EXCEPT !.status = "saving",
                                            !.epochs_run = epochs_default]
                        /\ pc' = [pc EXCEPT ![t] = "save_meta"]
                        /\ UNCHANGED loc
                   ELSE /\ ret' = [r EXCEPT !.status = "success",
                                            !.epochs_run = epochs_default]
                        /\ pc' = [pc EXCEPT ![t] = "idle"]
                        /\ loc' = [loc EXCEPT ![t] = NoLoc]
                        /\ UNCHANGED <<disk, diskRun>>
    /\ obs' = NoObs
    /\ UNCHANGED <<db, graphVars, opCtr>>

\* save_model(): json.dump to gnn_metadata.json, then the rest of train()
SaveMeta(t) ==
    /\ pc[t] = "save_meta"
    /\ LET p == TaskProc(t)
       IN  /\ disk' = [disk EXCEPT !.json = JsonDump(trainer[p].metadata)]
           /\ diskRun' = [diskRun EXCEPT !.json = origin[p].metadata.run,
                                        !.saved = trainer[p].metadata]
           /\ ret' = [call |-> "train", op |-> loc[t].op, status |-> "success",
                      num_edges |-> trainer[p].metadata.num_edges,
                      num_pairs |-> Len(prepare_training_pairs(
                                        trainer[p].edge_index.tensor,
                                        trainer[p].metadata.num_users,
                                        trainer[p].metadata.num_venues)),
                      epochs_run |-> epochs_default, missing |-> FALSE]
    /\ pc' = [pc EXCEPT ![t] = "idle"]
    /\ loc' = [loc EXCEPT ![t] = NoLoc]
    /\ obs' = NoObs
    /\ UNCHANGED <<db, graphVars, trainer, origin, opCtr>>

\* await trainer.load_model(rebuild_graph): the exists() checks and the read
\* of gnn_metadata.json into self.metadata
LoadStart(t, rebuild_graph) ==
    /\ pc[t] = "idle" /\ LoopFree(t) /\ opCtr < MaxOps
    /\ opCtr' = opCtr + 1
    /\ LET p  == TaskProc(t)
           op == opCtr + 1
       IN  IF disk.pt = None \/ disk.json = None
           THEN /\ ret' = [NoRet EXCEPT !.call = "load", !.op = op,
                                        !.status = "False", !.missing = TRUE]
                /\ UNCHANGED <<trainer, origin, pc, loc>>
           ELSE /\ trainer' = [trainer EXCEPT ![p].metadata = JsonLoad(disk.json)]
                /\ origin' = [origin EXCEPT ![p].metadata =
                                 [op |-> op, run |-> diskRun.json, by |-> "load",
                                  saved |-> diskRun.saved]]
                /\ pc' = [pc EXCEPT ![t] = "load_ckpt"]
                /\ loc' = [loc EXCEPT ![t] =
                              [NoLoc EXCEPT !.op = op, !.rebuild_graph = rebuild_graph,
                                            !.caller = "load"]]
                /\ ret' = [NoRet EXCEPT !.call = "load", !.op = op, !.status = "loading"]
    /\ obs' = NoObs
    /\ UNCHANGED <<db, graphVars, disk, diskRun>>

\* load_model(): torch.load, the new LightGCN, load_state_dict and eval()
LoadCkpt(t) ==
    /\ pc[t] = "load_ckpt"
    /\ LET p          == TaskProc(t)
           checkpoint == disk.pt
           model      == [LightGCN(checkpoint.num_users, checkpoint.num_venues,
                                   checkpoint.embedding_dim, checkpoint.num_layers,
                                   checkpoint.model_state_dict)
                          EXCEPT !.training = FALSE]
       IN  /\ trainer' = [trainer EXCEPT ![p].model = model]
           /\ origin' = [origin EXCEPT ![p].model =
                            [op |-> loc[t].op, run |-> diskRun.pt, by |-> "load",
                             rebuild |-> loc[t].rebuild_graph]]
    /\ IF loc[t].rebuild_graph
       THEN /\ pc' = [pc EXCEPT ![t] = "load_build"]
            /\ UNCHANGED <<ret, loc>>
       ELSE /\ pc' = [pc EXCEPT ![t] = "idle"]
            /\ loc' = [loc EXCEPT ![t] = NoLoc]
            /\ ret' = [NoRet EXCEPT !.call = "load", !.op = loc[t].op, !.status = "True"]
    /\ obs' = NoObs
    /\ UNCHANGED <<db, graphVars, disk, diskRun, opCtr>>

\* load_model(): from the return of build_graph(1, True) to "return True"
LoadBuilt(t) ==
    /\ pc[t] = "load_build" /\ LoopFree(t)
    /\ \E g \in {build_graph(NewBuilder, ReadRows(db), 1, TRUE)} :
           IF Len(g.edge_index) > 0
           THEN /\ trainer' = [trainer EXCEPT ![TaskProc(t)].edge_index =
                                   [tensor |-> g.edge_index]]
                /\ origin' = [origin EXCEPT ![TaskProc(t)].edge_index = [op |-> loc[t].op]]
           ELSE UNCHANGED <<trainer, origin>>
    /\ ret' = [NoRet EXCEPT !.call = "load", !.op = loc[t].op, !.status = "True"]
    /\ pc' = [pc EXCEPT ![t] = "idle"]
    /\ loc' = [loc EXCEPT ![t] = NoLoc]
    /\ obs' = NoObs
    /\ UNCHANGED <<db, graphVars, disk, diskRun, opCtr>>
(***************************************************************************)
(* Requests served by process 1: an engine constructed with the trainer of *)
(* process 1 ("gnn") or without a trainer ("plain").  A request runs       *)
(* between two awaits of the trainer's coroutines; obs is the response,    *)
(* with (ghost) what the request read, until the caller takes it (Deliver  *)
(* or any later step).                                                     *)
(***************************************************************************)
EngineKinds == {"gnn", "plain"}

\* RecommendationEngine.__init__
Engine(kind) ==
    IF kind = "gnn" THEN [use_gnn |-> TRUE, gnn_trainer |-> trainer[1]]
    ELSE [use_gnn |-> FALSE, gnn_trainer |-> None]

RequestUserIds == {1, 2, 9}

\* user ids _get_gnn_score is called with
ScoreUserIds == {1, 2}

ScoreVenueIds == {1, 2, 3}

RequestLimits == {1, 10}

RequestFilters == {None, [category |-> "restaurant", min_rating |-> 0]}

\* ids with an entry (under a key of any type) in a mapping of the metadata
MappedIds(metadata, name) ==
    IF metadata = None \/ "id_mappings" \notin DOMAIN metadata THEN {}
    ELSE { k.val : k \in DOMAIN metadata.id_mappings[name] }

\* what a request of engine kind e reads of the shared trainer (ghost)
ReadOf(e) ==
    IF e = "plain" THEN [use_gnn |-> FALSE]
    ELSE [use_gnn |-> TRUE,
          model_none |-> trainer[1].model = None,
          edge_index_none |-> trainer[1].edge_index = None,
          model_trained |-> trainer[1].model # None /\ trainer[1].model.weights.trained,
          origin |-> origin[1],
          complete |-> Completed(origin[1].model.op),
          mapped_users |-> MappedIds(trainer[1].metadata, "user_id_to_idx"),
          mapped_venues |-> MappedIds(trainer[1].metadata, "venue_id_to_idx")]

\* self.model.eval() in get_user_embeddings / get_venue_embeddings
AfterEval(tr, evaled) ==
    IF evaled /\ tr.model # None THEN [tr EXCEPT !.model.training = FALSE] ELSE tr

RequestEnabled ==
    /\ obs = NoObs
    /\ \A t \in Tasks : TaskProc(t) = 1 => pc[t] \notin SyncPcs

\* await engine.get_venue_recommendations(user_id, limit, filters)
Recommend(e, user_id, limit, filters) ==
    /\ RequestEnabled
    /\ \E r \in {get_venue_recommendations(Engine(e), user_id, limit, filters)} :
           /\ obs' = [kind |-> "recs", user_id |-> user_id, limit |-> limit,
                      items |-> r.items, read |-> ReadOf(e)]
           /\ trainer' = [trainer EXCEPT ![1] = AfterEval(@, r.evaled)]
    /\ UNCHANGED <<db, graphVars, disk, origin, diskRun, pc, loc, ret, opCtr>>

\* await engine._get_gnn_score(user_id, venue_id)
GnnScore(e, user_id, venue_id) ==
    /\ RequestEnabled
    /\ \E g \in {get_gnn_score(Engine(e), user_id, venue_id)} :
           /\ obs' = [kind |-> "gnn_score", user_id |-> user_id, venue_id |-> venue_id,
                      value |-> g.value, src |-> g.src, raised |-> g.raised,
                      caught |-> g.caught,
                      read |-> ReadOf(e)]
           /\ trainer' = [trainer EXCEPT ![1] = AfterEval(@, g.evaled)]
    /\ UNCHANGED <<db, graphVars, disk, origin, diskRun, pc, loc, ret, opCtr>>

\* the caller takes the response
Deliver ==
    /\ obs # NoObs
    /\ obs' = NoObs
    /\ UNCHANGED <<db, graphVars, coreVars>>

(***************************************************************************)
(* The database of Spec: one of TrainDbs at first, then rows are appended. *)
(***************************************************************************)
\* one explicit interest: user 1, venue 1
DbOneInterest ==
    [EmptyDb EXCEPT !.interests =
        { [id |-> 1, user_id |-> 1, venue_id |-> 1, interest_score |-> 1000,
           explicitly_interested |-> TRUE] }]

\* users 1 and 2 with two venue-less interactions each and a friendship,
\* venue 1 viewed once by user 3 and once by user 4
DbFriends ==
    [EmptyDb EXCEPT
        !.interactions =
            { [id |-> 1, user_id |-> 1, venue_id |-> NULL, interaction_type |-> "search", duration_seconds |-> 0],
              [id |-> 2, user_id |-> 1, venue_id |-> NULL, interaction_type |-> "search", duration_seconds |-> 0],
              [id |-> 3, user_id |-> 2, venue_id |-> NULL, interaction_type |-> "search", duration_seconds |-> 0],
              [id |-> 4, user_id |-> 2, venue_id |-> NULL, interaction_type |-> "search", duration_seconds |-> 0],
              [id |-> 5, user_id |-> 3, venue_id |-> 1, interaction_type |-> "view", duration_seconds |-> 0],
              [id |-> 6, user_id |-> 4, venue_id |-> 1, interaction_type |-> "view", duration_seconds |-> 0] },
        !.friendships = { [id |-> 1, user_id |-> 1, friend_id |-> 2] }]

TrainDbs == {EmptyDb, DbOneInterest, DbFriends}

\* venue-interest rows that may be inserted during Spec
TrainInterestPool ==
    { [id |-> 2, user_id |-> 2, venue_id |-> 2, interest_score |-> 1000,
       explicitly_interested |-> TRUE] }

\* a VenueInterest row is inserted
InsertInterest(r) ==
    /\ r \notin db.interests
    /\ db' = [db EXCEPT !.interests = @ \cup {r}]
    /\ obs' = NoObs
    /\ UNCHANGED <<graphVars, coreVars>>

\* the model directory: empty, or holding the two files an earlier run
\* (run 0: train() with its default arguments over DbOneInterest) saved
NoDisk == [pt |-> None, json |-> None]

PriorRun == Trained(build_graph(NewBuilder, ReadRows(DbOneInterest), 1, TRUE), 0, TRUE)

PriorDisk == [pt |-> Checkpoint(PriorRun), json |-> JsonDump(PriorRun.metadata)]

NoDiskRun == [pt |-> 0, json |-> 0, saved |-> None]

PriorDiskRun == [pt |-> 0, json |-> 0, saved |-> PriorRun.metadata]

Init ==
    /\ db \in TrainDbs
    /\ builder = [obj |-> NewBuilder, fresh |-> TRUE]
    /\ out = NoBuild
    /\ prev = NoBuild
    /\ \/ disk = NoDisk /\ diskRun = NoDiskRun
       \/ disk = PriorDisk /\ diskRun = PriorDiskRun
    /\ trainer = [p \in Procs |-> NewTrainer]
    /\ origin = [p \in Procs |-> NoOrigin]
    /\ pc = [t \in Tasks |-> "idle"]
    /\ loc = [t \in Tasks |-> NoLoc]
    /\ ret = NoRet
    /\ opCtr = 0
    /\ obs = NoObs

\* Spec: process 1 serving requests while its task 1 retrains and its task 2
\* reloads the shared trainer
Next ==
    \/ \E m \in MinInteractionsChoices, f \in BOOLEAN, s \in BOOLEAN : TrainStart(1, m, f, s)
    \/ TrainBuilt(1)
    \/ SaveMeta(1)
    \/ \E rebuild \in BOOLEAN : LoadStart(2, rebuild)
    \/ LoadCkpt(2)
    \/ LoadBuilt(2)
    \/ \E e \in EngineKinds, u \in RequestUserIds, l \in RequestLimits, f \in RequestFilters :
          Recommend(e, u, l, f)
    \/ \E e \in EngineKinds, u \in ScoreUserIds, v \in ScoreVenueIds : GnnScore(e, u, v)
    \/ Deliver
    \/ \E r \in TrainInterestPool : InsertInterest(r)

Spec == Init /\ [][Next]_vars

\* SpecDisk: process 1 (task 1 trains, task 2 loads) and the training job of
\* process 2 (task 3) on one model directory
NextDisk ==
    \/ \E t \in {1, 3}, m \in MinInteractionsChoices, f \in BOOLEAN, s \in BOOLEAN :
          TrainStart(t, m, f, s)
    \/ \E t \in {1, 3} : TrainBuilt(t)
    \/ \E t \in {1, 3} : SaveMeta(t)
    \/ \E rebuild \in BOOLEAN : LoadStart(2, rebuild)
    \/ LoadCkpt(2)
    \/ LoadBuilt(2)
    \/ \E r \in TrainInterestPool : InsertInterest(r)

SpecDisk == Init /\ [][NextDisk]_vars

\* SpecGraph: GraphDataBuilder alone, over the databases of GraphDbs and
\* every order the readers may return rows in
InitG ==
    /\ InitGraph
    /\ disk = NoDisk
    /\ diskRun = NoDiskRun
    /\ trainer = [p \in Procs |-> NewTrainer]
    /\ origin = [p \in Procs |-> NoOrigin]
    /\ pc = [t \in Tasks |-> "idle"]
    /\ loc = [t \in Tasks |-> NoLoc]
    /\ ret = NoRet
    /\ opCtr = 0
    /\ obs = NoObs

NextGraph ==
    \/ ConstructBuilder /\ UNCHANGED trainVars
    \/ \E m \in MinInteractionsChoices, f \in BOOLEAN : BuildGraph(m, f) /\ UNCHANGED trainVars

SpecGraph == InitG /\ [][NextGraph]_vars

(***************************************************************************)
(* Properties.                                                             *)
(***************************************************************************)
\* a response of get_venue_recommendations served by the engine holding the
\* shared trainer, whose model was not None
RecsWithModel == obs.kind = "recs" /\ obs.read.use_gnn /\ ~obs.read.model_none

\* C1: when a model is attached but a venue's GNN score could not be queried
\* (unmapped user or venue, index out of bounds, missing edge list or
\* metadata, failing query), the GNN score is unavailable (None) and the
\* venue's final score equals its rule score.
C1_UnqueriedMeansRuleScore ==
    RecsWithModel =>
        \A i \in DOMAIN obs.items :
            obs.items[i].gnn_src # "model" =>
                /\ obs.items[i].gnn_score = NoScore
                /\ obs.items[i].final_score = obs.items[i].raw_rule_score

\* C2: with no trainer attached or with a trainer whose model is None, every
\* returned candidate has final score equal to its rule score and GNN score
\* None.
C2_NoModelMeansRuleScore ==
    (obs.kind = "recs" /\ (~obs.read.use_gnn \/ obs.read.model_none)) =>
        \A i \in DOMAIN obs.items :
            /\ obs.items[i].final_score = obs.items[i].raw_rule_score
            /\ obs.items[i].score = obs.items[i].rule_score
            /\ obs.items[i].gnn_score = NoScore

\* candidates were returned by an engine whose attached trainer has no model
C2_Witness ==
    /\ obs.kind = "recs" /\ obs.read.use_gnn /\ obs.read.model_none
    /\ Len(obs.items) >= 2

\* the model could be queried for a score: trainer, model, edge list and
\* metadata present, both ids found in the mapping, no exception
C3_Queried == obs.src = "model"

\* C3: _get_gnn_score never raises; its value is in [0,1]; it is exactly 0.5
\* whenever the model could not be queried.
C3_GnnScoreTotal ==
    obs.kind = "gnn_score" =>
        /\ obs.raised = ""
        /\ obs.value >= 0 /\ obs.value <= One
        /\ ~C3_Queried => obs.value = 500000
        /\ (~obs.read.use_gnn \/ obs.read.model_none \/ obs.read.edge_index_none
            \/ obs.user_id \notin obs.read.mapped_users
            \/ obs.venue_id \notin obs.read.mapped_venues) => obs.value = 500000

\* the model query failed inside _get_gnn_score and 0.5 was returned
C3_Witness ==
    obs.kind = "gnn_score" /\ obs.caught # "" /\ obs.value = 500000

\* C4: with a trained model on the trainer (from train() or load_model()) and
\* the user and the venue both in the model's id mapping, the candidate's GNN
\* score is the model's sigmoid(affinity), not the placeholder, and its final
\* score is 0.7 * rule + 0.3 * gnn.
C4_MappedMeansModelScore ==
    (/\ RecsWithModel /\ obs.read.model_trained
     /\ ~obs.read.edge_index_none /\ obs.read.complete
     /\ obs.user_id \in obs.read.mapped_users) =>
        \A i \in DOMAIN obs.items :
            obs.items[i].id \in obs.read.mapped_venues =>
                /\ obs.items[i].gnn_src = "model"
                /\ obs.items[i].final_score =
                      (7 * obs.items[i].raw_rule_score + 3 * obs.items[i].raw_gnn_score) \div 10

\* the entries of a saved mapping resolve, by integer id, to the same index
\* in the loaded mapping
SameByIntegerId(saved, loaded) ==
    \A k \in DOMAIN saved :
        /\ IntKey(k.val) \in DOMAIN loaded
        /\ loaded[IntKey(k.val)] = saved[k]

\* C5: load_model after save_model restores the saved dimensions, and every
\* user or venue id of the saved mapping resolves to the same index when
\* looked up by its integer id in the loaded mapping; load_model returns
\* False when an artifact is missing.
C5_SaveLoadRoundTrip ==
    /\ \A p \in Procs :
          (/\ origin[p].metadata.by = "load" /\ origin[p].model.by = "load"
           /\ origin[p].model.op = origin[p].metadata.op
           /\ origin[p].model.run = origin[p].metadata.run) =>
              LET saved  == origin[p].metadata.saved
                  loaded == trainer[p].metadata
                  model  == trainer[p].model
              IN  /\ model.embedding_dim = embedding_dim_default
                  /\ model.num_layers = num_layers_default
                  /\ model.num_users = saved.num_users
                  /\ model.num_venues = saved.num_venues
                  /\ SameByIntegerId(saved.id_mappings.user_id_to_idx,
                                     loaded.id_mappings.user_id_to_idx)
                  /\ SameByIntegerId(saved.id_mappings.venue_id_to_idx,
                                     loaded.id_mappings.venue_id_to_idx)
    /\ (ret.call = "load" /\ ret.missing) => ret.status = "False"

\* C6: train() raises, runs no epoch and writes no artifact whenever the
\* graph it built has no edge or yields no positive pair.
C6_TrainFailsFast ==
    [][\A t \in Tasks :
          (/\ pc[t] = "train_build" /\ pc'[t] # "train_build"
           /\ \E g \in {build_graph(NewBuilder, ReadRows(db), loc[t].min_interactions,
                                      loc[t].include_friendships)} :
                  \/ Len(g.edge_index) = 0
                  \/ Len(prepare_training_pairs(g.edge_index, g.metadata.num_users,
                                                g.metadata.num_venues)) = 0) =>
              /\ pc'[t] = "idle"
              /\ ret'.call = "train" /\ ret'.op = loc[t].op
              /\ ret'.status = "ValueError"
              /\ ret'.epochs_run = 0
              /\ disk' = disk]_vars

\* train() raised on a graph that has edges (friendships) but no positive pair
C6_Witness ==
    /\ ret.call = "train" /\ ret.status = "ValueError"
    /\ ret.num_edges > 0 /\ ret.num_pairs = 0 /\ ret.epochs_run = 0

\* C7: the model and the metadata a request reads were assigned by one
\* train()/load_model() invocation, that invocation has completed, and
\* (unless it is a load_model that was asked not to rebuild the graph) the
\* edge list was assigned by it too.
C7_ReaderSeesOneInvocation ==
    (obs.kind \in {"recs", "gnn_score"} /\ obs.read.use_gnn /\ ~obs.read.model_none) =>
        /\ obs.read.origin.model.op = obs.read.origin.metadata.op
        /\ obs.read.origin.model.rebuild =>
              obs.read.origin.model.op = obs.read.origin.edge_index.op
        /\ obs.read.complete

\* C8: once no save is in progress, lightgcn.pt and gnn_metadata.json in the
\* model directory come from the same training run.
C8_ArtifactsFromOneRun ==
    (/\ disk.pt # None /\ disk.json # None
     /\ \A t \in Tasks : pc[t] # "save_meta") =>
        diskRun.pt = diskRun.json

\* the values of a dict
Values(d) == { d[k] : k \in DOMAIN d }

\* C9: after every build_graph on a builder, user indices are exactly
\* 0..num_users-1 and venue indices num_users..num_users+num_venues-1, the
\* id->index and index->id maps are inverses, every user->venue edge goes
\* from the user range to the venue range and every friendship edge stays
\* in the user range.
C9_MappingsAndEdgesInRange ==
    (out.kind = "built" /\ ~builder.fresh) =>
        LET b  == builder.obj
            nu == b.num_users
            nv == b.num_venues
            uv == IF "num_user_venue_edges" \in DOMAIN out.metadata
                  THEN out.metadata.num_user_venue_edges ELSE 0
        IN  /\ Values(b.user_id_to_idx) = 0..(nu - 1)
            /\ Values(b.venue_id_to_idx) = nu..(nu + nv - 1)
            /\ Cardinality(DOMAIN b.user_id_to_idx) = nu
            /\ Cardinality(DOMAIN b.venue_id_to_idx) = nv
            /\ \A k \in DOMAIN b.user_id_to_idx :
                  /\ IntKey(b.user_id_to_idx[k]) \in DOMAIN b.idx_to_user_id
                  /\ b.idx_to_user_id[IntKey(b.user_id_to_idx[k])] = k.val
            /\ \A k \in DOMAIN b.idx_to_user_id :
                  /\ IntKey(b.idx_to_user_id[k]) \in DOMAIN b.user_id_to_idx
                  /\ b.user_id_to_idx[IntKey(b.idx_to_user_id[k])] = k.val
            /\ \A k \in DOMAIN b.venue_id_to_idx :
                  /\ IntKey(b.venue_id_to_idx[k]) \in DOMAIN b.idx_to_venue_id
                  /\ b.idx_to_venue_id[IntKey(b.venue_id_to_idx[k])] = k.val
            /\ \A k \in DOMAIN b.idx_to_venue_id :
                  /\ IntKey(b.idx_to_venue_id[k]) \in DOMAIN b.venue_id_to_idx
                  /\ b.venue_id_to_idx[IntKey(b.idx_to_venue_id[k])] = k.val
            /\ \A i \in DOMAIN out.edge_index :
                  LET e == out.edge_index[i]
                  IN  IF i <= uv
                      THEN e[1] \in 0..(nu - 1) /\ e[2] \in nu..(nu + nv - 1)
                      ELSE e[1] \in 0..(nu - 1) /\ e[2] \in 0..(nu - 1)

\* the multiset of the edges of a build, as edge -> number of occurrences
EdgeMultiset(edge_index) ==
    [e \in Range(edge_index) |-> Cardinality({ i \in DOMAIN edge_index : edge_index[i] = e })]

\* C10: two builds (each on a new builder, with the same arguments) over the
\* same records produce the same id<->index assignment and the same edge
\* multiset, whatever order the readers returned the rows in.
C10_BuildsAgree ==
    (/\ out.kind = "built" /\ prev.kind = "built" /\ out.fresh /\ prev.fresh
     /\ out.min_interactions = prev.min_interactions
     /\ out.include_friendships = prev.include_friendships) =>
        /\ out.metadata = prev.metadata
        /\ EdgeMultiset(out.edge_index) = EdgeMultiset(prev.edge_index)

(***************************************************************************)
(* SpecScore: the scoring functions called on their own, over bounded sets *)
(* of arguments.  obs holds the arguments and the result of the last call. *)
(***************************************************************************)
\* tensor[i] on a tensor of n rows: the row read (a negative index counts
\* from the end), or -1 when the index is out of range (IndexError)
PyIndex(i, n) ==
    IF 0 <= i /\ i < n THEN i
    ELSE IF -n <= i /\ i < 0 THEN n + i
    ELSE -1

\* LightGCN.predict: the exception raised ("" if none) and, for each
\* requested venue index, the nodes whose embedding rows enter the dot
\* product (embedding.weight[user_idx] and embedding.weight[num_users:][v])
LightGCN_predict(model, user_idx, venue_indices) ==
    IF PyIndex(user_idx, model.num_nodes) = -1
       \/ \E i \in DOMAIN venue_indices : PyIndex(venue_indices[i], model.num_venues) = -1
    THEN [exc |-> "IndexError", scores |-> << >>]
    ELSE [exc |-> "",
          scores |-> [i \in DOMAIN venue_indices |->
                         [user_node  |-> PyIndex(user_idx, model.num_nodes),
                          venue_node |-> model.num_users
                                         + PyIndex(venue_indices[i], model.num_venues)]]]

\* GNNTrainer.predict_user_venue_scores for a tensor of venue indices: the
\* exception raised ("" if none) and the nodes whose propagated embeddings
\* enter each dot product
predict_user_venue_tensor(tr, user_idx, venue_indices) ==
    IF tr.model = None \/ tr.edge_index = None
    THEN [exc |-> "ValueError", scores |-> << >>]
    ELSE IF user_idx < 0 \/ user_idx >= tr.model.num_users
    THEN [exc |-> "ValueError", scores |-> << >>]
    ELSE IF \E i \in DOMAIN venue_indices :
                venue_indices[i] < 0 \/ venue_indices[i] >= tr.model.num_venues
    THEN [exc |-> "ValueError", scores |-> << >>]
    ELSE IF ForwardRaises(tr.model, tr.edge_index)
    THEN [exc |-> "RuntimeError", scores |-> << >>]
    ELSE [exc |-> "",
          scores |-> [i \in DOMAIN venue_indices |->
                         [user_node  |-> user_idx,
                          venue_node |-> tr.model.num_users + venue_indices[i]]]]

\* the models and index arguments of the predict calls of SpecScore
MaxNodes == 2

PredictSizes == 1..MaxNodes

PredictIndices == -1..(MaxNodes + 1)

PredictVenueIndices ==
    { << >> } \cup { <<v>> : v \in -1..MaxNodes }
    \cup { <<v, w>> : v \in -1..MaxNodes, w \in -1..MaxNodes }

\* a trainer holding a trained model of the given size and the one-edge graph
\* (user 0, venue 0)
PredictTrainer(num_users, num_venues) ==
    [model |-> [LightGCN(num_users, num_venues, embedding_dim_default, num_layers_default,
                         [run |-> 0, trained |-> TRUE]) EXCEPT !.training = FALSE],
     edge_index |-> [tensor |-> << <<0, num_users>> >>],
     metadata |-> None]

\* model.predict(user_idx, venue_indices) or
\* trainer.predict_user_venue_scores(user_idx, venue_indices)
Predict(api, num_users, num_venues, user_idx, venue_indices) ==
    /\ obs = NoObs
    /\ \E tr \in {PredictTrainer(num_users, num_venues)} :
       \E r \in {IF api = "LightGCN.predict"
                 THEN LightGCN_predict(tr.model, user_idx, venue_indices)
                 ELSE predict_user_venue_tensor(tr, user_idx, venue_indices)} :
           obs' = [kind |-> "predict", api |-> api, num_users |-> num_users,
                   num_venues |-> num_venues, user_idx |-> user_idx,
                   venue_indices |-> venue_indices, exc |-> r.exc, scores |-> r.scores]
    /\ UNCHANGED <<db, graphVars, coreVars>>

(***************************************************************************)
(* SpecInterest: express-interest operations on the venue_interests table. *)
(* Tasks 1 and 2 run RecommendationAgent.express_interest (each with its   *)
(* own session), the simulator runs _execute_express_interest.             *)
(* interest_score is in thousandths.                                       *)
(***************************************************************************)
MaxExpress == 3

InterestUserIds == {1, 2}

InterestVenueIds == {1, 2}

AgentTasks == {1, 2}

\* the primary key an INSERT gives a new row
NextId(rows) == 1 + Cardinality(rows)

\* the rows select(VenueInterest).where(user_id == ..., venue_id == ...) returns
InterestsOf(user_id, venue_id) ==
    { r \in db.interests : r.user_id = user_id /\ r.venue_id = venue_id }

\* express_interest up to "await self.db.execute(query)": the call starts
ExpressStart(t, user_id, venue_id) ==
    /\ pc[t] = "idle" /\ opCtr < MaxExpress
    /\ opCtr' = opCtr + 1
    /\ pc' = [pc EXCEPT ![t] = "express_select"]
    /\ loc' = [loc EXCEPT ![t] = [op |-> opCtr + 1, user_id |-> user_id,
                                  venue_id |-> venue_id, existing |-> 0,
                                  caller |-> "express_interest"]]
    /\ obs' = NoObs
    /\ UNCHANGED <<db, graphVars, disk, trainer, origin, diskRun, ret>>

\* the SELECT returns; result.scalar_one_or_none() (MultipleResultsFound
\* when more than one row matches)
ExpressSelect(t) ==
    /\ pc[t] = "express_select"
    /\ \E found \in {InterestsOf(loc[t].user_id, loc[t].venue_id)} :
          IF Cardinality(found) > 1
          THEN /\ pc' = [pc EXCEPT ![t] = "idle"]
               /\ loc' = [loc EXCEPT ![t] = NoLoc]
               /\ ret' = [NoRet EXCEPT !.call = "express_interest", !.op = loc[t].op,
                                       !.status = "MultipleResultsFound"]
          ELSE /\ pc' = [pc EXCEPT ![t] = "express_commit"]
               /\ loc' = [loc EXCEPT ![t].existing =
                             IF found = {} THEN 0 ELSE (CHOOSE r \in found : TRUE).id]
               /\ UNCHANGED ret
    /\ obs' = NoObs
    /\ UNCHANGED <<db, graphVars, disk, trainer, origin, diskRun, opCtr>>

\* "if existing: ... else: self.db.add(interest)" and "await self.db.commit()"
ExpressCommit(t) ==
    /\ pc[t] = "express_commit"
    /\ IF loc[t].existing # 0
       THEN db' = [db EXCEPT !.interests =
                      { IF r.id = loc[t].existing
                        THEN [r EXCEPT !.explicitly_interested = TRUE,
                                       !.interest_score = Min(r.interest_score + 100, 1000)]
                        ELSE r : r \in db.interests }]
       ELSE db' = [db EXCEPT !.interests = @ \cup
                      { [id |-> NextId(db.interests), user_id |-> loc[t].user_id,
                         venue_id |-> loc[t].venue_id, interest_score |-> 800,
                         explicitly_interested |-> TRUE] }]
    /\ pc' = [pc EXCEPT ![t] = "express_track"]
    /\ obs' = NoObs
    /\ UNCHANGED <<graphVars, disk, trainer, origin, diskRun, loc, ret, opCtr>>

\* await self.track_interaction(user_id, InteractionType.SAVE, venue_id)
\* and the return of express_interest
ExpressTrack(t) ==
    /\ pc[t] = "express_track"
    /\ db' = [db EXCEPT !.interactions = @ \cup
                 { [id |-> NextId(db.interactions), user_id |-> loc[t].user_id,
                    venue_id |-> loc[t].venue_id, interaction_type |-> "save",
                    duration_seconds |-> 0] }]
    /\ ret' = [NoRet EXCEPT !.call = "express_interest", !.op = loc[t].op,
                            !.status = "success"]
    /\ pc' = [pc EXCEPT ![t] = "idle"]
    /\ loc' = [loc EXCEPT ![t] = NoLoc]
    /\ obs' = NoObs
    /\ UNCHANGED <<graphVars, disk, trainer, origin, diskRun, opCtr>>

\* simulator_graph._execute_express_interest for a user and the venue its
\* random query drew
ExecuteExpressInterest(user_id, venue_id) ==
    /\ opCtr < MaxExpress
    /\ opCtr' = opCtr + 1
    /\ db' = [db EXCEPT !.interests = @ \cup
                 { [id |-> NextId(db.interests), user_id |-> user_id,
                    venue_id |-> venue_id, interest_score |-> 500,
                    explicitly_interested |-> TRUE] }]
    /\ ret' = [NoRet EXCEPT !.call = "_execute_express_interest", !.op = opCtr + 1,
                            !.status = "success"]
    /\ obs' = NoObs
    /\ UNCHANGED <<graphVars, disk, trainer, origin, diskRun, pc, loc>>

(***************************************************************************)
(* _calculate_venue_score on its own.                                      *)
(***************************************************************************)
\* "distance / max_distance" raises ZeroDivisionError when the user is at
\* the venue and max_distance is 0
VenueScoreRaises(user, preferences, venue) ==
    /\ Truthy(user.latitude) /\ Truthy(user.longitude)
    /\ (IF preferences # None THEN preferences.max_distance ELSE MAX_DISTANCE_KM) = 0
    /\ haversine_distance(user.latitude, user.longitude,
                          venue.latitude, venue.longitude) = 0

\* the users, preference rows and venues _calculate_venue_score is called with
ScoreUsers ==
    { [id |-> 1, latitude |-> lat, longitude |-> lon, preferences |-> None] :
        lat \in {NoCoord, 0, 4070}, lon \in {NoCoord, -7400} }

ScorePreferences ==
    { None }
    \cup { [max_distance |-> d, min_price_level |-> 1, max_price_level |-> 2,
            cuisine_preferences |-> c] : d \in {0, 10}, c \in { {}, {"italian"} } }

ScoreVenues ==
    { [id |-> 1, latitude |-> lat, longitude |-> -7400, category |-> "restaurant",
       cuisine_type |-> c, price_level |-> p, rating |-> r,
       popularity_score |-> pop, trending |-> t] :
        lat \in {0, 4070, 4072, 4170}, c \in {"italian", "french"}, p \in {2, 4},
        r \in {0, 4500, 5000}, pop \in {0, One}, t \in BOOLEAN }

\* await engine._calculate_venue_score(user, preferences, venue)
VenueScore(user, preferences, venue) ==
    /\ obs = NoObs
    /\ obs' = [kind |-> "venue_score", user |-> user, preferences |-> preferences,
               venue |-> venue,
               exc |-> IF VenueScoreRaises(user, preferences, venue)
                       THEN "ZeroDivisionError" ELSE "",
               score |-> IF VenueScoreRaises(user, preferences, venue) THEN NoScore
                         ELSE calculate_venue_score(user, preferences, venue)]
    /\ UNCHANGED <<db, graphVars, coreVars>>

(***************************************************************************)
(* Group venue optimisation and social compatibility.  Activity scores and *)
(* similarities are in millionths; max distances are in km and their       *)
(* averages in metres.                                                     *)
(***************************************************************************)
\* a user_preferences row
Prefs(max_distance, min_price, max_price, cuisines, ambiance, open) ==
    [max_distance |-> max_distance, min_price_level |-> min_price,
     max_price_level |-> max_price, cuisine_preferences |-> cuisines,
     preferred_ambiance |-> ambiance, open_to_new_people |-> open]

\* users LEFT JOIN user_preferences, in primary-key order
SocialUsers ==
    << [id |-> 1, latitude |-> 4070, longitude |-> -7400, activity_score |-> 500000,
        preferences |-> Prefs(10, 1, 2, {"italian"}, {"casual"}, TRUE)],
       [id |-> 2, latitude |-> 4072, longitude |-> -7400, activity_score |-> 800000,
        preferences |-> Prefs(20, 1, 2, {"italian"}, {"casual"}, TRUE)],
       [id |-> 3, latitude |-> 0, longitude |-> -7400, activity_score |-> 500000,
        preferences |-> None],
       [id |-> 4, latitude |-> NoCoord, longitude |-> NoCoord, activity_score |-> 0,
        preferences |-> Prefs(0, 3, 4, {"french"}, {"romantic"}, FALSE)],
       [id |-> 5, latitude |-> 4071, longitude |-> -7400, activity_score |-> 0,
        preferences |-> Prefs(10, 3, 4, {"french"}, {}, TRUE)] >>

\* venues, in primary-key order
GroupVenues ==
    << [id |-> 1, latitude |-> 4071, longitude |-> -7400, cuisine_type |-> "italian",
        price_level |-> 2, rating |-> 4500, capacity |-> 10],
       [id |-> 2, latitude |-> 4071, longitude |-> -7400, cuisine_type |-> "french",
        price_level |-> 4, rating |-> 5000, capacity |-> 1],
       [id |-> 3, latitude |-> 4170, longitude |-> -7400, cuisine_type |-> "italian",
        price_level |-> 2, rating |-> 4000, capacity |-> 10],
       [id |-> 4, latitude |-> 4070, longitude |-> -7400, cuisine_type |-> "thai",
        price_level |-> 1, rating |-> 3000, capacity |-> 2] >>

\* the fallback centroid (40.7128, -74.0060), to the hundredth of a degree
DefaultCentroidLat == 4071

DefaultCentroidLon == -7400

RECURSIVE SumSeq(_)
SumSeq(s) == IF s = << >> THEN 0 ELSE Head(s) + SumSeq(Tail(s))

\* [row.field for row in rows]
Column(rows, field) == [i \in DOMAIN rows |-> rows[i][field]]

\* the user_preferences rows of the users that have one ("if prefs")
PrefsOf(user_data) ==
    Column(SelectSeq(user_data, LAMBDA u : u.preferences # None), "preferences")

\* sum(max_distances) / len(max_distances) if max_distances else 10, in metres
AvgMaxDistance(max_distances) ==
    IF max_distances = << >> THEN 10000
    ELSE (SumSeq(max_distances) * 1000) \div Len(max_distances)

\* distance / avg_max_distance in millionths, for a distance in metres
DistanceRatio(distance, max_distances) ==
    IF max_distances = << >> THEN (distance * 1000) \div 10
    ELSE (distance * 1000 * Len(max_distances)) \div SumSeq(max_distances)

\* RecommendationEngine._calculate_group_venue_score: the exception raised
\* ("" if none) and the score
calculate_group_venue_score(venue, centroid_lat, centroid_lon, cuisine_counts, min_prices, max_prices, max_distances, group_size) ==
    IF haversine_distance(centroid_lat, centroid_lon, venue.latitude, venue.longitude)
          > AvgMaxDistance(max_distances)
    THEN [exc |-> "", score |-> 0]
    ELSE IF AvgMaxDistance(max_distances) = 0
    THEN [exc |-> "ZeroDivisionError", score |-> NoScore]
    ELSE IF venue.capacity < group_size
    THEN [exc |-> "", score |-> 0]
    ELSE [exc |-> "",
          score |->
            ( (One - DistanceRatio(haversine_distance(centroid_lat, centroid_lon,
                                                      venue.latitude, venue.longitude),
                                   max_distances))
            + (IF /\ (IF min_prices = << >> THEN 1 <= venue.price_level
                      ELSE SumSeq(min_prices) <= venue.price_level * Len(min_prices))
                  /\ (IF max_prices = << >> THEN venue.price_level <= 4
                      ELSE venue.price_level * Len(max_prices) <= SumSeq(max_prices))
               THEN One ELSE 300000)
            + (IF venue.cuisine_type \in DOMAIN cuisine_counts
               THEN (cuisine_counts[venue.cuisine_type] * One) \div group_size
               ELSE 300000)
            + One
            + (venue.rating * 1000) \div 5 ) \div 5]

\* cuisine_counts: cuisine -> number of users (with preferences) listing it
CuisineCounts(user_data) ==
    [c \in UNION { user_data[i].preferences.cuisine_preferences :
                     i \in { j \in DOMAIN user_data : user_data[j].preferences # None } } |->
        Cardinality({ i \in DOMAIN user_data :
                        /\ user_data[i].preferences # None
                        /\ c \in user_data[i].preferences.cuisine_preferences })]

\* sum(xs) / len(xs) if xs else default, for the centroid coordinates
CentroidOf(xs, default) == IF xs = << >> THEN default ELSE SumSeq(xs) \div Len(xs)

\* the group centroid and the aggregated preferences computed from the rows
\* of the users query
GroupAggregate(user_data) ==
    [centroid_lat |-> CentroidOf(Column(SelectSeq(user_data, LAMBDA u : Truthy(u.latitude)),
                                        "latitude"), DefaultCentroidLat),
     centroid_lon |-> CentroidOf(Column(SelectSeq(user_data, LAMBDA u : Truthy(u.longitude)),
                                        "longitude"), DefaultCentroidLon),
     cuisine_counts |-> CuisineCounts(user_data),
     min_prices |-> Column(PrefsOf(user_data), "min_price_level"),
     max_prices |-> Column(PrefsOf(user_data), "max_price_level"),
     max_distances |-> Column(PrefsOf(user_data), "max_distance")]

\* venues_query: capacity and latitude bounding box (1 degree = 111 km); all
\* modelled entities share a longitude, so the longitude bound always holds
GroupCandidates(agg, group_size) ==
    SelectSeq(GroupVenues, LAMBDA v :
        /\ v.capacity >= group_size
        /\ Abs(v.latitude - agg.centroid_lat) * 1110 <= AvgMaxDistance(agg.max_distances))

\* _calculate_group_venue_score for a venue of the query: its id, the
\* exception raised ("" if none) and the score
GroupEntry(venue, result) == [id |-> venue.id, exc |-> result.exc, final_score |-> result.score]

\* the loop "for venue in venues", in table order
GroupScores(candidates, agg, group_size) ==
    [i \in DOMAIN candidates |->
        GroupEntry(candidates[i],
                   calculate_group_venue_score(candidates[i], agg.centroid_lat,
                       agg.centroid_lon, agg.cuisine_counts, agg.min_prices,
                       agg.max_prices, agg.max_distances, group_size))]

\* the dicts returned for scored_venues[:10], with the unrounded score
GroupItems(sorted) ==
    [i \in 1..Min(10, Len(sorted)) |->
        [id |-> sorted[i].id, group_score |-> Round3(sorted[i].final_score),
         raw_score |-> sorted[i].final_score]]

\* the entries with score > 0, the sort and the returned list
GroupResult(scores) ==
    IF \E i \in DOMAIN scores : scores[i].exc # ""
    THEN [exc |-> "ZeroDivisionError", items |-> << >>]
    ELSE [exc |-> "",
          items |-> GroupItems(SortByScoreDesc(
                        SelectSeq(scores, LAMBDA s : s.final_score > 0)))]

\* RecommendationEngine.find_optimal_venue_for_group: the exception raised
\* ("" if none) and the returned list
find_optimal_venue_for_group(user_ids) ==
    IF user_ids = << >> \/ (\A i \in DOMAIN SocialUsers : SocialUsers[i].id \notin Range(user_ids))
    THEN [exc |-> "", items |-> << >>]
    ELSE GroupResult(
             GroupScores(
                 GroupCandidates(
                     GroupAggregate(SelectSeq(SocialUsers, LAMBDA u : u.id \in Range(user_ids))),
                     Len(user_ids)),
                 GroupAggregate(SelectSeq(SocialUsers, LAMBDA u : u.id \in Range(user_ids))),
                 Len(user_ids)))

\* centroid_lat and centroid_lon as find_optimal_venue_for_group computes
\* them (NoCoord when it returns before)
GroupCentroid(user_ids) ==
    IF user_ids = << >> \/ (\A i \in DOMAIN SocialUsers : SocialUsers[i].id \notin Range(user_ids))
    THEN [centroid_lat |-> NoCoord, centroid_lon |-> NoCoord]
    ELSE \* lats = [u.latitude for u, _ in user_data if u.latitude], lons alike
         [centroid_lat |-> GroupAggregate(SelectSeq(SocialUsers,
                               LAMBDA u : u.id \in Range(user_ids))).centroid_lat,
          centroid_lon |-> GroupAggregate(SelectSeq(SocialUsers,
                               LAMBDA u : u.id \in Range(user_ids))).centroid_lon]

\* the arguments of the group calls of SpecScore
MaxGroup == 2

GroupUserIds == {1, 2, 3, 4, 9}

RECURSIVE SeqsUpTo(_, _)
SeqsUpTo(S, n) ==
    IF n = 0 THEN { << >> }
    ELSE SeqsUpTo(S, n - 1) \cup { Append(s, x) : s \in SeqsUpTo(S, n - 1), x \in S }

GroupCentroidLats == {4070, 4071}

GroupMaxDistances == { << >>, <<0>>, <<10>>, <<10, 20>> }

GroupCuisineCounts == { EmptyDict, [c \in {"italian"} |-> 1] }

\* await engine.find_optimal_venue_for_group(user_ids)
GroupRecommend(user_ids) ==
    /\ obs = NoObs
    /\ \E r \in {find_optimal_venue_for_group(user_ids)} :
       \E c \in {GroupCentroid(user_ids)} :
           obs' = [kind |-> "group", user_ids |-> user_ids, exc |-> r.exc, items |-> r.items,
                   centroid_lat |-> c.centroid_lat, centroid_lon |-> c.centroid_lon]
    /\ UNCHANGED <<db, graphVars, coreVars>>

\* engine._calculate_group_venue_score(venue, ...)
GroupScore(venue, centroid_lat, cuisine_counts, prices, max_distances, group_size) ==
    /\ obs = NoObs
    /\ \E r \in {calculate_group_venue_score(venue, centroid_lat, DefaultCentroidLon,
                       cuisine_counts, prices, prices, max_distances, group_size)} :
           obs' = [kind |-> "group_score", venue |-> venue, centroid_lat |-> centroid_lat,
                   cuisine_counts |-> cuisine_counts, prices |-> prices,
                   max_distances |-> max_distances, group_size |-> group_size,
                   exc |-> r.exc, score |-> r.score]
    /\ UNCHANGED <<db, graphVars, coreVars>>

\* "if a and b: similarities.append(len(a & b) / len(a | b))": the appended
\* values, in millionths
SetSimilarity(a, b) ==
    IF a # {} /\ b # {}
    THEN << (Cardinality(a \cap b) * One) \div Cardinality(a \cup b) >>
    ELSE << >>

\* the price similarity that scores two equal one-level ranges 0
PriceSimilarity_mut(user_pref, other_pref) ==
    IF Max(user_pref.max_price_level, other_pref.max_price_level)
         - Min(user_pref.min_price_level, other_pref.min_price_level) > 0
    THEN (Max(0, Min(user_pref.max_price_level, other_pref.max_price_level)
                 - Max(user_pref.min_price_level, other_pref.min_price_level)) * One)
         \div (Max(user_pref.max_price_level, other_pref.max_price_level)
               - Min(user_pref.min_price_level, other_pref.min_price_level))
    ELSE 0

\* price_similarity = price_intersection / price_union if price_union > 0 else 1.0
PriceSimilarity(user_pref, other_pref) ==
    IF Max(user_pref.max_price_level, other_pref.max_price_level)
         - Min(user_pref.min_price_level, other_pref.min_price_level) > 0
    THEN (Max(0, Min(user_pref.max_price_level, other_pref.max_price_level)
                 - Max(user_pref.min_price_level, other_pref.min_price_level)) * One)
         \div (Max(user_pref.max_price_level, other_pref.max_price_level)
               - Min(user_pref.min_price_level, other_pref.min_price_level))
    ELSE One

\* sum(similarities) / len(similarities) if similarities else 0.5
MeanOr(similarities, default) ==
    IF similarities = << >> THEN default ELSE SumSeq(similarities) \div Len(similarities)

\* RecommendationEngine._calculate_preference_similarity_sync
calculate_preference_similarity(user_pref, other_pref) ==
    IF user_pref = None \/ other_pref = None THEN 500000
    ELSE MeanOr(SetSimilarity(user_pref.cuisine_preferences, other_pref.cuisine_preferences)
                \o << PriceSimilarity(user_pref, other_pref) >>
                \o SetSimilarity(user_pref.preferred_ambiance, other_pref.preferred_ambiance),
                500000)

\* the preference rows the similarity is computed for
SimilarityPrefs ==
    { None }
    \cup { Prefs(10, p[1], p[2], c, a, TRUE) :
             p \in { <<1, 2>>, <<3, 4>>, <<1, 4>>, <<2, 2>> },
             c \in { {}, {"italian"}, {"french"}, {"italian", "french"} },
             a \in { {}, {"casual"}, {"romantic"} } }

\* engine._calculate_preference_similarity_sync(user_pref, other_pref)
Similarity(user_pref, other_pref) ==
    /\ obs = NoObs
    /\ obs' = [kind |-> "similarity", user_pref |-> user_pref, other_pref |-> other_pref,
               score |-> calculate_preference_similarity(user_pref, other_pref)]
    /\ UNCHANGED <<db, graphVars, coreVars>>

\* a friend-connection term that rates a direct friend below a stranger
FriendScore_mut(other_id, friend_ids, mutual_count) ==
    IF other_id \in friend_ids THEN 200000
    ELSE IF mutual_count > 0 THEN Min((mutual_count * One) \div 5, One)
    ELSE 300000

\* friend connection: 1.0 for a friend, min(mutual_count / 5, 1.0) with
\* mutual friends, 0.3 otherwise
FriendScore(other_id, friend_ids, mutual_count) ==
    IF other_id \in friend_ids THEN One
    ELSE IF mutual_count > 0 THEN Min((mutual_count * One) \div 5, One)
    ELSE 300000

\* venue_id = None (a value no id takes)
NoVenueId == -1

\* "if venue_id": None and 0 are both falsy
HasVenue(venue_id) == venue_id # NoVenueId /\ venue_id # 0

\* the (score, weight) pairs of one call, weights in hundredths; the venue
\* term is present only with a venue
CompatTerms(friend, pref, venue_id, shared_interest, activity, open_to_new) ==
    << <<friend, 25>>, <<pref, 25>> >>
    \o (IF HasVenue(venue_id) THEN << <<IF shared_interest THEN One ELSE 300000, 20>> >> ELSE << >>)
    \o << <<activity, 15>>, <<IF open_to_new THEN One ELSE 500000, 15>> >>

\* weighted_sum / total_weight
WeightedAverage(terms) ==
    SumSeq([i \in DOMAIN terms |-> terms[i][1] * terms[i][2]])
    \div SumSeq([i \in DOMAIN terms |-> terms[i][2]])

\* RecommendationEngine._calculate_compatibility_sync: the score, in millionths
calculate_compatibility_sync(user, other_user, friend_ids, venue_id, mutual_count, user_pref, other_pref, shared_interest, open_to_new) ==
    WeightedAverage(CompatTerms(FriendScore(other_user.id, friend_ids, mutual_count),
                                calculate_preference_similarity(user_pref, other_pref),
                                venue_id, shared_interest,
                                One - Abs(user.activity_score - other_user.activity_score),
                                open_to_new))

\* the two users of a compatibility call: activity scores in [0, 1]
CompatActivities == { 0, 500000, One }
CompatUser(id, activity) == [id |-> id, activity_score |-> activity]
\* preference rows of a compatibility call
CompatPrefs ==
    { None,
      Prefs(10, 1, 2, {"italian"}, {"casual"}, TRUE),
      Prefs(10, 3, 4, {"french"}, {"romantic"}, TRUE) }

\* engine._calculate_compatibility_sync(user 1, user 2, ...)
Compatibility(a, b, friend_ids, venue_id, mutual_count, user_pref, other_pref, shared_interest, open_to_new) ==
    /\ obs = NoObs
    /\ obs' = [kind |-> "compat", user |-> CompatUser(1, a), other_user |-> CompatUser(2, b),
               friend_ids |-> friend_ids, venue_id |-> venue_id, mutual_count |-> mutual_count,
               user_pref |-> user_pref, other_pref |-> other_pref,
               shared_interest |-> shared_interest, open_to_new |-> open_to_new,
               score |-> calculate_compatibility_sync(CompatUser(1, a), CompatUser(2, b), friend_ids,
                           venue_id, mutual_count, user_pref, other_pref, shared_interest, open_to_new)]
    /\ UNCHANGED <<db, graphVars, coreVars>>

\* settings.COMPATIBILITY_THRESHOLD, in millionths
COMPATIBILITY_THRESHOLD == 500000

\* select(Friendship.friend_id).where(Friendship.user_id == user_id), over
\* friendship rows <<user_id, friend_id>>
FriendIdsOf(friendships, user_id) ==
    { f[2] : f \in { g \in friendships : g[1] = user_id } }

\* a candidate query that leaves the requesting user in
Candidates_mut(user_id, friend_ids) ==
    SelectSeq(SocialUsers, LAMBDA u : u.id \notin friend_ids)

\* select(User).where(User.id.notin_([user_id] + friend_ids)), in primary-key order
Candidates(user_id, friend_ids) ==
    SelectSeq(SocialUsers, LAMBDA u : u.id \notin ({user_id} \cup friend_ids))

\* query.limit(n), n >= 0
SqlLimit(rows, n) == SubSeq(rows, 1, Min(n, Len(rows)))

\* other_users: the first min(limit * 10, 50) candidates, or the first 100
\* when those are fewer than limit and fewer than 50 ids are excluded
OtherUsers(candidates, friend_ids, limit) ==
    IF Len(SqlLimit(candidates, Min(limit * 10, 50))) < limit /\ 1 + Cardinality(friend_ids) < 50
    THEN SqlLimit(candidates, 100)
    ELSE SqlLimit(candidates, Min(limit * 10, 50))

\* mutual_counts.get(other_user.id, 0): the friendship rows of the candidate
\* that point at a friend of the user, counted only "if friend_ids"
MutualCount(friendships, other_id, friend_ids) ==
    IF friend_ids = {} THEN 0
    ELSE Cardinality({ f \in friendships : f[1] = other_id /\ f[2] \in friend_ids })

\* venue_interests.get(other_user.id, False), over the rows <<user_id, venue_id>>
\* with explicitly_interested == 1
SharedInterest(interests, other_id, venue_id) ==
    HasVenue(venue_id) /\ <<other_id, venue_id>> \in interests

\* user_prefs.open_to_new_people if user_prefs else True
OpenToNew(preferences) ==
    IF preferences # None THEN preferences.open_to_new_people ELSE TRUE

\* one scored candidate
CompatEntry(user, other_user, friend_ids, venue_id, friendships, interests) ==
    [id          |-> other_user.id,
     is_friend   |-> other_user.id \in friend_ids,
     final_score |-> calculate_compatibility_sync(user, other_user, friend_ids, venue_id,
                         MutualCount(friendships, other_user.id, friend_ids),
                         user.preferences, other_user.preferences,
                         SharedInterest(interests, other_user.id, venue_id),
                         OpenToNew(other_user.preferences))]

\* the loop over other_users: candidates not open to new people are skipped,
\* the others scored
CompatScores(user, others, friend_ids, venue_id, friendships, interests) ==
    [i \in DOMAIN SelectSeq(others, LAMBDA o : OpenToNew(o.preferences)) |->
        CompatEntry(user, SelectSeq(others, LAMBDA o : OpenToNew(o.preferences))[i],
                    friend_ids, venue_id, friendships, interests)]

\* the dicts returned for scored_users[:limit]
PeopleItems(sorted, limit) ==
    [i \in 1..Min(limit, Len(sorted)) |->
        [id |-> sorted[i].id, compatibility_score |-> Round3(sorted[i].final_score),
         raw_score |-> sorted[i].final_score, is_friend |-> sorted[i].is_friend]]

\* the threshold, the sort and the returned list
PeopleResult(scores, limit) ==
    PeopleItems(SortByScoreDesc(SelectSeq(scores,
                    LAMBDA s : s.final_score >= COMPATIBILITY_THRESHOLD)), limit)

\* the part of get_compatible_users after the user and the friends are read
CompatibleOf(user, friend_ids, venue_id, limit, friendships, interests) ==
    PeopleResult(CompatScores(user,
                              OtherUsers(Candidates(user.id, friend_ids), friend_ids, limit),
                              friend_ids, venue_id, friendships, interests),
                 limit)

\* RecommendationEngine.get_compatible_users
get_compatible_users(user_id, venue_id, limit, friendships, interests) ==
    IF \A i \in DOMAIN SocialUsers : SocialUsers[i].id # user_id THEN << >>
    ELSE CompatibleOf(SocialUsers[CHOOSE i \in DOMAIN SocialUsers : SocialUsers[i].id = user_id],
                      FriendIdsOf(friendships, user_id), venue_id, limit, friendships, interests)

\* the largest limit of a people request
MaxPeople == 3

\* the friendships tables of the people requests
FriendshipTables ==
    { {},
      { <<1, 4>>, <<4, 1>>, <<2, 4>>, <<4, 2>> },
      { <<1, 2>>, <<2, 1>> },
      { <<1, 3>>, <<3, 1>>, <<1, 4>>, <<4, 1>>, <<5, 3>>, <<3, 5>>, <<5, 4>>, <<4, 5>> } }

\* the venue_interests tables of the people requests
InterestTables == { {}, { <<2, 1>>, <<5, 1>> } }

\* await engine.get_compatible_users(user_id, venue_id, limit)
CompatibleUsers(user_id, venue_id, limit, friendships, interests) ==
    /\ obs = NoObs
    /\ obs' = [kind |-> "people", user_id |-> user_id, venue_id |-> venue_id, limit |-> limit,
               friendships |-> friendships, interests |-> interests,
               items |-> get_compatible_users(user_id, venue_id, limit, friendships, interests)]
    /\ UNCHANGED <<db, graphVars, coreVars>>

(***************************************************************************)
(* LightGCN._propagate.  The embeddings are not modelled numerically: the  *)
(* result of a layer is, for every node n, the number of terms             *)
(* embeddings[m] * deg_inv_sqrt[row] * deg_inv_sqrt[col] that were added   *)
(* into row n for each node m, next to the clamped degrees the             *)
(* normalisation is taken from.                                            *)
(***************************************************************************)
\* row, col = edge_index; deg = scatter_add of ones at row and at col,
\* clamped to min 1.0
Degree(edge_index, n) ==
    Max(1, Cardinality({ i \in DOMAIN edge_index : edge_index[i][1] = n })
           + Cardinality({ i \in DOMAIN edge_index : edge_index[i][2] = n }))

\* weighted_embeddings = embeddings[col] * norm, scatter_add_ at index row:
\* the number of terms of embeddings[m] added into row n
ScatterCount(edge_index, n, m) ==
    Cardinality({ i \in DOMAIN edge_index : edge_index[i][1] = n /\ edge_index[i][2] = m })

\* LightGCN._propagate over a model of num_nodes nodes
propagate(edge_index, num_nodes) ==
    [deg |-> [n \in 0..(num_nodes - 1) |-> Degree(edge_index, n)],
     acc |-> [n \in 0..(num_nodes - 1) |->
                 [m \in 0..(num_nodes - 1) |-> ScatterCount(edge_index, n, m)]]]

\* most parallel edges of a pair in the edge lists given to _propagate
MaxParallel == 2

\* the edge lists given to _propagate: users 0 and 1, venue 2; c02 and c12
\* parallel user->venue edges, and both directions of the friendship 0-1
PropagateEdges(c02, c12, friends) ==
    Repeat(<<0, 2>>, c02) \o Repeat(<<1, 2>>, c12)
    \o (IF friends THEN << <<0, 1>>, <<1, 0>> >> ELSE << >>)

\* model._propagate(edge_index, embeddings)
Propagate(c02, c12, friends) ==
    /\ obs = NoObs
    /\ \E r \in {propagate(PropagateEdges(c02, c12, friends), 3)} :
           obs' = [kind |-> "propagate", edge_index |-> PropagateEdges(c02, c12, friends),
                   num_nodes |-> 3, deg |-> r.deg, acc |-> r.acc]
    /\ UNCHANGED <<db, graphVars, coreVars>>

(***************************************************************************)
(* The edges of one pair.  build_graph is run, on a new builder, over      *)
(* every table content drawn from rows that all concern user 1 and venue 1.*)
(***************************************************************************)
EdgeInteractionRows ==
    { [id |-> 1, user_id |-> 1, venue_id |-> 1, interaction_type |-> "view", duration_seconds |-> 1],
      [id |-> 2, user_id |-> 1, venue_id |-> 1, interaction_type |-> "view", duration_seconds |-> 4],
      [id |-> 3, user_id |-> 1, venue_id |-> 1, interaction_type |-> "view", duration_seconds |-> 55],
      [id |-> 4, user_id |-> 1, venue_id |-> 1, interaction_type |-> "save", duration_seconds |-> 0],
      [id |-> 5, user_id |-> 1, venue_id |-> 1, interaction_type |-> "view", duration_seconds |-> 300] }

EdgeInterestRows ==
    { [id |-> 1, user_id |-> 1, venue_id |-> 1, interest_score |-> 0, explicitly_interested |-> FALSE],
      [id |-> 2, user_id |-> 1, venue_id |-> 1, interest_score |-> 500, explicitly_interested |-> FALSE],
      [id |-> 3, user_id |-> 1, venue_id |-> 1, interest_score |-> 1000, explicitly_interested |-> TRUE] }

EdgeBookingRows == { [id |-> 1, user_id |-> 1, venue_id |-> 1] }

\* edge_index, metadata = await GraphDataBuilder(db).build_graph(1, False)
BuildEdges(interactions, interests, bookings) ==
    /\ obs = NoObs
    /\ \E d \in {[interactions |-> interactions, interests |-> interests,
                  bookings |-> bookings, friendships |-> {}]} :
       \E g \in {build_graph(NewBuilder, ReadRows(d), 1, FALSE)} :
           obs' = [kind |-> "edges", db |-> d, edge_index |-> g.edge_index,
                   metadata |-> g.metadata]
    /\ UNCHANGED <<db, graphVars, coreVars>>

\* positive_pairs, negative_pairs = self._prepare_training_pairs(edge_index, 2, 1)
\* for the edge list of two users and a venue
PreparePairs(c02, c12, friends) ==
    /\ obs = NoObs
    /\ \E e \in {PropagateEdges(c02, c12, friends)} :
           obs' = [kind |-> "pairs", edge_index |-> e, num_users |-> 2, num_venues |-> 1,
                   positive_pairs |-> prepare_training_pairs(e, 2, 1)]
    /\ UNCHANGED <<db, graphVars, coreVars>>

(***************************************************************************)
(* GNNTrainer.train: the optimisation loop.  SpecEpochs runs it on its own, *)
(* one mini-batch per step, for a graph of two users and two venues; obs   *)
(* holds the locals of train().  A loss is a number drawn from BatchLosses; *)
(* an average is the exact fraction <<sum, count>>.                        *)
(***************************************************************************)
\* most user->venue edges of the trained graph
MaxPairs == 3

\* most epochs of a trainer
MaxEpochs == 2

BatchLosses == {1, 2}

\* the user->venue edges build_graph returned: a prefix of these
TrainEdgePool == << <<0, 2>>, <<0, 2>>, <<1, 3>>, <<1, 2>>, <<0, 3>> >>

\* best_loss = float('inf')
Inf == <<1, 0>>

\* a < b for two fractions with denominators >= 0
FracLess(a, b) == a[1] * b[2] < b[1] * a[2]

\* negative_pairs = torch.stack([user_indices, negative_venue_indices], dim=1)
NegativePairs(positive_pairs, negative_venue_indices) ==
    [i \in DOMAIN positive_pairs |-> <<positive_pairs[i][1], negative_venue_indices[i]>>]

\* a loop that drops the last, partial batch
NumBatches_mut(n, batch_size) == n \div batch_size

\* num_batches = (len(positive_pairs) + self.batch_size - 1) // self.batch_size
NumBatches(n, batch_size) == (n + batch_size - 1) \div batch_size

\* tensor[indices] and tensor[start:end]
Gather(tensor, indices) == [i \in DOMAIN indices |-> tensor[indices[i]]]

Slice(tensor, start_idx, end_idx) ==
    IF start_idx >= Min(end_idx, Len(tensor)) THEN << >>
    ELSE SubSeq(tensor, start_idx + 1, Min(end_idx, Len(tensor)))

\* train(), lines 112-125: the pairs, the optimizer, losses and best_loss
StartTraining(n, negative_venue_indices, batch_size, epochs) ==
    /\ obs = NoObs
    /\ \E positive_pairs \in {prepare_training_pairs(SubSeq(TrainEdgePool, 1, n), 2, 2)} :
           /\ ~NoPositivePairs(positive_pairs)
           /\ obs' = [kind |-> "training", step |-> "epoch",
                      num_venues |-> 2, batch_size |-> batch_size, epochs |-> epochs,
                      positive_pairs |-> positive_pairs,
                      negative_pairs |-> NegativePairs(positive_pairs, negative_venue_indices),
                      epoch |-> 0, indices |-> << >>, num_batches |-> 0, batch_idx |-> 0,
                      batches |-> << >>, epoch_losses |-> << >>,
                      losses |-> << >>, best_loss |-> Inf]
    /\ UNCHANGED <<db, graphVars, coreVars>>

\* "for epoch in range(self.epochs)": the shuffle and num_batches
EpochStart(indices) ==
    /\ obs.kind = "training" /\ obs.step = "epoch" /\ obs.epoch < obs.epochs
    /\ DOMAIN indices = DOMAIN obs.positive_pairs
    /\ obs' = [obs EXCEPT !.step = "batch", !.indices = indices,
                          !.num_batches = NumBatches(Len(obs.positive_pairs), obs.batch_size),
                          !.batch_idx = 0, !.batches = << >>, !.epoch_losses = << >>]
    /\ UNCHANGED <<db, graphVars, coreVars>>

\* "for batch_idx in range(num_batches)": one mini-batch and its loss (rows:
\* the positions in positive_pairs the batch was gathered from)
BatchStep(loss) ==
    /\ obs.kind = "training" /\ obs.step = "batch" /\ obs.batch_idx < obs.num_batches
    /\ \E start_idx \in {obs.batch_idx * obs.batch_size} :
       \E end_idx \in {Min(start_idx + obs.batch_size, Len(obs.positive_pairs))} :
           obs' = [obs EXCEPT
                     !.batches = Append(@,
                         [batch_pos |-> Slice(Gather(obs.positive_pairs, obs.indices),
                                              start_idx, end_idx),
                          batch_neg |-> Slice(Gather(obs.negative_pairs, obs.indices),
                                              start_idx, end_idx),
                          rows |-> Slice(obs.indices, start_idx, end_idx)]),
                     !.epoch_losses = Append(@, loss),
                     !.batch_idx = @ + 1]
    /\ UNCHANGED <<db, graphVars, coreVars>>

\* the end of an epoch: avg_loss = np.mean(epoch_losses) and best_loss
EpochEnd ==
    /\ obs.kind = "training" /\ obs.step = "batch" /\ obs.batch_idx = obs.num_batches
    /\ \E avg_loss \in {<<SumSeq(obs.epoch_losses), Len(obs.epoch_losses)>>} :
           obs' = [obs EXCEPT !.step = "epoch", !.epoch = @ + 1,
                              !.losses = Append(@, avg_loss),
                              !.best_loss = IF FracLess(avg_loss, @) THEN avg_loss ELSE @]
    /\ UNCHANGED <<db, graphVars, coreVars>>

\* the loop is over: "Training completed"
TrainingDone ==
    /\ obs.kind = "training" /\ obs.step = "epoch" /\ obs.epoch >= obs.epochs
    /\ obs' = [obs EXCEPT !.step = "done"]
    /\ UNCHANGED <<db, graphVars, coreVars>>

InitScore ==
    /\ db = EmptyDb
    /\ builder = [obj |-> NewBuilder, fresh |-> TRUE]
    /\ out = NoBuild
    /\ prev = NoBuild
    /\ disk = NoDisk
    /\ diskRun = NoDiskRun
    /\ trainer = [p \in Procs |-> NewTrainer]
    /\ origin = [p \in Procs |-> NoOrigin]
    /\ pc = [t \in Tasks |-> "idle"]
    /\ loc = [t \in Tasks |-> NoLoc]
    /\ ret = NoRet
    /\ opCtr = 0
    /\ obs = NoObs

\* SpecScore: one call at a time, each taken by the caller before the next
NextScore ==
    \/ \E api \in {"LightGCN.predict", "predict_user_venue_scores"},
          nu \in PredictSizes, nv \in PredictSizes,
          u \in PredictIndices, vs \in PredictVenueIndices : Predict(api, nu, nv, u, vs)
    \/ \E u \in ScoreUsers, p \in ScorePreferences, v \in ScoreVenues : VenueScore(u, p, v)
    \/ \E ids \in SeqsUpTo(GroupUserIds, MaxGroup) : GroupRecommend(ids)
    \/ \E i \in DOMAIN GroupVenues, lat \in GroupCentroidLats, c \in GroupCuisineCounts,
          p \in { << >>, <<2>> }, d \in GroupMaxDistances, n \in 1..(MaxGroup + 1) :
          GroupScore(GroupVenues[i], lat, c, p, d, n)
    \/ \E p \in SimilarityPrefs, q \in SimilarityPrefs : Similarity(p, q)
    \/ \E a \in CompatActivities, b \in CompatActivities, f \in { {}, {2}, {3} }, v \in { NoVenueId, 0, 1 }, m \in { 0, 1, 7 }, p \in CompatPrefs, q \in CompatPrefs, s \in BOOLEAN, o \in BOOLEAN : Compatibility(a, b, f, v, m, p, q, s, o)
    \/ \E u \in {1, 2, 3, 5, 9}, v \in { NoVenueId, 1 }, l \in 0..MaxPeople, fr \in FriendshipTables, it \in InterestTables : CompatibleUsers(u, v, l, fr, it)
    \/ \E e \in EngineKinds, u \in RequestUserIds, l \in RequestLimits, f \in RequestFilters : Recommend(e, u, l, f)
    \/ \E c02 \in 0..MaxParallel, c12 \in 0..MaxParallel, f \in BOOLEAN : Propagate(c02, c12, f)
    \/ \E i \in SUBSET EdgeInteractionRows, n \in SUBSET EdgeInterestRows, b \in SUBSET EdgeBookingRows : BuildEdges(i, n, b)
    \/ \E c02, c12 \in 0..MaxParallel, f \in BOOLEAN : PreparePairs(c02, c12, f)
    \/ Deliver

SpecScore == InitScore /\ [][NextScore]_vars

\* SpecInterest: two agent tasks and the simulator expressing interest
NextInterest ==
    \/ \E t \in AgentTasks, u \in InterestUserIds, v \in InterestVenueIds : ExpressStart(t, u, v)
    \/ \E t \in AgentTasks : ExpressSelect(t)
    \/ \E t \in AgentTasks : ExpressCommit(t)
    \/ \E t \in AgentTasks : ExpressTrack(t)
    \/ \E u \in InterestUserIds, v \in InterestVenueIds : ExecuteExpressInterest(u, v)

SpecInterest == InitScore /\ [][NextInterest]_vars

\* SpecEpochs: the optimisation loop of one train() call
NextEpochs ==
    \/ \E n \in 1..MaxPairs, b \in {1, 2, MaxPairs + 1}, e \in 1..MaxEpochs :
          \E negs \in [1..n -> 0..1] : StartTraining(n, negs, b, e)
    \/ \E n \in 1..MaxPairs : \E indices \in Permutations(1..n) : EpochStart(indices)
    \/ \E loss \in BatchLosses : BatchStep(loss)
    \/ EpochEnd
    \/ TrainingDone

SpecEpochs == InitScore /\ [][NextEpochs]_vars

\* the ids of a table column that occur in at least n rows of the table
ThresholdIds(rows, key, n) ==
    { id \in { r[key] : r \in rows } : Cardinality({ r \in rows : r[key] = id }) >= n }

\* the users and the venues build_graph is to include for the call that
\* produced out
EligibleUsers ==
    ThresholdIds(db.interactions, "user_id", out.min_interactions)
    \cup { r.user_id : r \in db.interests }

EligibleVenues ==
    (ThresholdIds(db.interactions, "venue_id", out.min_interactions) \ {NULL})
    \cup { r.venue_id : r \in db.interests }

\* C11: the graph build_graph returns includes exactly the users (venues)
\* with at least min_interactions interaction records or any venue-interest
\* record: its counts are the sizes of those sets and its id mappings map
\* those ids and no other; when either set is empty the call returns an
\* empty edge list and metadata with zero counts.
C11_ExactlyEligibleIncluded ==
    out.kind = "built" =>
        IF EligibleUsers = {} \/ EligibleVenues = {}
        THEN /\ out.edge_index = << >>
             /\ out.metadata = [num_users |-> 0, num_venues |-> 0, num_edges |-> 0]
        ELSE /\ out.metadata.num_users = Cardinality(EligibleUsers)
             /\ out.metadata.num_venues = Cardinality(EligibleVenues)
             /\ "id_mappings" \in DOMAIN out.metadata =>
                   /\ { k.val : k \in DOMAIN out.metadata.id_mappings.user_id_to_idx }
                          = EligibleUsers
                   /\ { k.val : k \in DOMAIN out.metadata.id_mappings.venue_id_to_idx }
                          = EligibleVenues

\* C12: a predict call returns one score per requested venue index, each
\* computed from the user node user_idx and the venue node of that index,
\* when user_idx is in [0, num_users) and every venue index is in
\* [0, num_venues); otherwise it raises an out-of-range error.
C12_PredictValidatesIndices ==
    obs.kind = "predict" =>
        IF /\ obs.user_idx \in 0..(obs.num_users - 1)
           /\ \A i \in DOMAIN obs.venue_indices :
                 obs.venue_indices[i] \in 0..(obs.num_venues - 1)
        THEN /\ obs.exc = ""
             /\ Len(obs.scores) = Len(obs.venue_indices)
             /\ \A i \in DOMAIN obs.scores :
                   /\ obs.scores[i].user_node = obs.user_idx
                   /\ obs.scores[i].venue_node = obs.num_users + obs.venue_indices[i]
        ELSE obs.exc \in {"ValueError", "IndexError"}

\* C13: a step that serves get_venue_recommendations or the GNN score lookup
\* changes neither the persisted records nor the shared trainer (model
\* weights and mode, metadata, edge list) nor the model directory.
C13_RequestsMutateNothing ==
    [][obs'.kind \in {"recs", "gnn_score"} =>
          /\ trainer' = trainer
          /\ db' = db
          /\ disk' = disk]_vars

\* C14: the venue_interests table never holds two records of one
\* (user, venue) pair.
C14_OneInterestPerPair ==
    \A r, s \in db.interests :
        (r.user_id = s.user_id /\ r.venue_id = s.venue_id) => r = s

\* the user of a _calculate_venue_score call has a location and the venue is
\* farther than the user's max distance (preference, or configured default)
VenueTooFar ==
    /\ obs.user.latitude # NoCoord /\ obs.user.longitude # NoCoord
    /\ haversine_distance(obs.user.latitude, obs.user.longitude,
                          obs.venue.latitude, obs.venue.longitude)
          > 1000 * (IF obs.preferences # None THEN obs.preferences.max_distance
                    ELSE MAX_DISTANCE_KM)

\* C15: _calculate_venue_score returns a score in [0, 1], and returns 0
\* exactly when the user has a location and the venue is farther than the
\* user's max distance.
C15_VenueScoreRange ==
    obs.kind = "venue_score" =>
        /\ obs.exc = ""
        /\ 0 <= obs.score /\ obs.score <= One
        /\ obs.score = 0 <=> VenueTooFar

\* the rows of the users a find_optimal_venue_for_group call names
GroupMembers == SelectSeq(SocialUsers, LAMBDA u : u.id \in Range(obs.user_ids))

\* latitude of the group centroid: the mean over the members with a location
GroupCentroidLat ==
    CentroidOf(Column(SelectSeq(GroupMembers, LAMBDA u : u.latitude # NoCoord), "latitude"),
               DefaultCentroidLat)

\* venue v is too small for the group of the call or too far from its centroid
GroupExcludes(v) ==
    \/ v.capacity < Len(obs.user_ids)
    \/ haversine_distance(GroupCentroidLat, v.longitude, v.latitude, v.longitude)
          > AvgMaxDistance(Column(PrefsOf(GroupMembers), "max_distance"))

\* C16: a venue with capacity below the group size, or farther from the group
\* centroid than the group's average max distance, gets the group score 0
\* without an exception and is not in the list find_optimal_venue_for_group
\* returns.
C16_GroupExclusions ==
    /\ obs.kind = "group_score" =>
          ((\/ obs.venue.capacity < obs.group_size
            \/ haversine_distance(obs.centroid_lat, obs.venue.longitude,
                                  obs.venue.latitude, obs.venue.longitude)
                  > AvgMaxDistance(obs.max_distances)) =>
              obs.exc = "" /\ obs.score = 0)
    /\ obs.kind = "group" =>
          \A i \in DOMAIN GroupVenues :
              GroupExcludes(GroupVenues[i]) =>
                  \A k \in DOMAIN obs.items : obs.items[k].id # GroupVenues[i].id

\* C18: the preference similarity of two preference rows is 1.0 when their
\* cuisine sets, price ranges and ambiance sets are identical, and below 0.3
\* when the cuisine sets, the price ranges and the ambiance sets are all
\* disjoint.
C18_SimilarityExtremes ==
    (obs.kind = "similarity" /\ obs.user_pref # None /\ obs.other_pref # None) =>
        /\ (/\ obs.user_pref.cuisine_preferences = obs.other_pref.cuisine_preferences
            /\ obs.user_pref.min_price_level = obs.other_pref.min_price_level
            /\ obs.user_pref.max_price_level = obs.other_pref.max_price_level
            /\ obs.user_pref.preferred_ambiance = obs.other_pref.preferred_ambiance) =>
              obs.score = One
        /\ (/\ obs.user_pref.cuisine_preferences \cap obs.other_pref.cuisine_preferences = {}
            /\ \/ obs.user_pref.max_price_level < obs.other_pref.min_price_level
               \/ obs.other_pref.max_price_level < obs.user_pref.min_price_level
            /\ obs.user_pref.preferred_ambiance \cap obs.other_pref.preferred_ambiance = {}) =>
              obs.score < 300000

\* two identical rows with a one-level price range were compared
C18_Witness ==
    /\ obs.kind = "similarity" /\ obs.user_pref # None
    /\ obs.user_pref = obs.other_pref
    /\ obs.user_pref.min_price_level = obs.user_pref.max_price_level
    /\ obs.user_pref.cuisine_preferences # {}
    /\ obs.score = One

\* C17: the compatibility score of two users with activity scores in [0, 1]
\* lies in [0, 1], with or without a target venue, and a non-friend with no
\* mutual friends never scores above what the same call gives when the
\* candidate is a direct friend.
C17_CompatibilityRange ==
    obs.kind = "compat" =>
        /\ 0 <= obs.score /\ obs.score <= One
        /\ (obs.other_user.id \notin obs.friend_ids /\ obs.mutual_count = 0) =>
              obs.score <= calculate_compatibility_sync(obs.user, obs.other_user,
                               obs.friend_ids \cup {obs.other_user.id}, obs.venue_id,
                               obs.mutual_count, obs.user_pref, obs.other_pref,
                               obs.shared_interest, obs.open_to_new)

\* a stranger with no mutual friends was scored without a venue, strictly
\* below the friend's score for the same inputs
C17_Witness ==
    /\ obs.kind = "compat"
    /\ obs.other_user.id \notin obs.friend_ids /\ obs.mutual_count = 0
    /\ obs.venue_id = NoVenueId
    /\ 0 < obs.score
    /\ obs.score < calculate_compatibility_sync(obs.user, obs.other_user, {obs.other_user.id},
                       obs.venue_id, 0, obs.user_pref, obs.other_pref,
                       obs.shared_interest, obs.open_to_new)

\* C19: get_compatible_users returns only candidates whose compatibility
\* score reaches the configured threshold, never the requesting user, at
\* most limit entries, and the empty list for an unknown user.
C19_CompatibleUsersFiltered ==
    obs.kind = "people" =>
        /\ \A i \in DOMAIN obs.items :
              /\ obs.items[i].raw_score >= COMPATIBILITY_THRESHOLD
              /\ obs.items[i].compatibility_score >= COMPATIBILITY_THRESHOLD
              /\ obs.items[i].id # obs.user_id
        /\ Len(obs.items) <= obs.limit
        /\ (\A i \in DOMAIN SocialUsers : SocialUsers[i].id # obs.user_id) => obs.items = << >>

\* a known user asked for two people and got two, while the list was cut
\* neither by the limit alone nor left whole: a third candidate was scored
\* below the threshold or skipped
C19_Witness ==
    /\ obs.kind = "people" /\ obs.user_id = 1 /\ obs.limit = 2
    /\ Len(obs.items) = 2
    /\ Len(Candidates(1, FriendIdsOf(obs.friendships, 1))) > 2

\* C20: the lists returned by get_venue_recommendations, get_compatible_users
\* and find_optimal_venue_for_group are in non-increasing order of the score
\* they report (score, compatibility_score, group_score), and
\* get_venue_recommendations returns at most limit entries and the empty
\* list for an unknown user.
C20_ListsSortedDescending ==
    /\ obs.kind = "recs" =>
          /\ \A i, j \in DOMAIN obs.items : i < j => obs.items[i].score >= obs.items[j].score
          /\ Len(obs.items) <= obs.limit
          /\ (\A u \in Users : u.id # obs.user_id) => obs.items = << >>
    /\ obs.kind = "people" =>
          \A i, j \in DOMAIN obs.items :
              i < j => obs.items[i].compatibility_score >= obs.items[j].compatibility_score
    /\ obs.kind = "group" =>
          \A i, j \in DOMAIN obs.items :
              i < j => obs.items[i].group_score >= obs.items[j].group_score

\* a known user asked for ten venues and got three, each scored strictly
\* below the one before it
C20_Witness ==
    /\ obs.kind = "recs" /\ obs.limit = 10 /\ Len(obs.items) = 3
    /\ obs.items[1].score > obs.items[2].score
    /\ obs.items[2].score > obs.items[3].score

SameNode(n, g, model, loaded) ==
    /\ n < model.num_users + model.num_venues
    /\ IF n < g.metadata.num_users
       THEN /\ n < model.num_users
            /\ StrKey(n) \in DOMAIN loaded.id_mappings.idx_to_user_id
            /\ loaded.id_mappings.idx_to_user_id[StrKey(n)]
                 = g.metadata.id_mappings.idx_to_user_id[IntKey(n)]
       ELSE /\ n >= model.num_users
            /\ StrKey(n) \in DOMAIN loaded.id_mappings.idx_to_venue_id
            /\ loaded.id_mappings.idx_to_venue_id[StrKey(n)]
                 = g.metadata.id_mappings.idx_to_venue_id[IntKey(n)]

\* C22: when load_model(rebuild_graph=True) returns True, every node index
\* of the trainer's edge list is below model.num_users + model.num_venues
\* and denotes the user or venue the loaded id mapping gives that index,
\* even when records were added after the model was trained.
C22_RebuiltEdgesFitModel ==
    [][\A t \in Tasks :
          (/\ pc[t] = "load_build" /\ pc'[t] = "idle"
           /\ ret'.call = "load" /\ ret'.status = "True"
           /\ trainer'[TaskProc(t)].edge_index # None) =>
              \E g \in {build_graph(NewBuilder, ReadRows(db), 1, TRUE)} :
                  \A i \in DOMAIN trainer'[TaskProc(t)].edge_index.tensor :
                      /\ SameNode(trainer'[TaskProc(t)].edge_index.tensor[i][1], g,
                                  trainer'[TaskProc(t)].model, trainer'[TaskProc(t)].metadata)
                      /\ SameNode(trainer'[TaskProc(t)].edge_index.tensor[i][2], g,
                                  trainer'[TaskProc(t)].model, trainer'[TaskProc(t)].metadata)]_vars

\* the venues farther from user than the user's max distance (the user's
\* preference, or the configured default)
TooFarIds(user) ==
    { Venues[i].id : i \in { j \in DOMAIN Venues :
        /\ user.latitude # NoCoord /\ user.longitude # NoCoord
        /\ haversine_distance(user.latitude, user.longitude,
                              Venues[j].latitude, Venues[j].longitude)
              > 1000 * (IF user.preferences # None THEN user.preferences.max_distance
                        ELSE MAX_DISTANCE_KM) } }

\* C23: a venue farther from the user than the user's max distance (rule
\* score 0) is in no list get_venue_recommendations returns, with or without
\* a GNN trainer or model on the engine.
C23_TooFarNeverReturned ==
    obs.kind = "recs" =>
        \A u \in { w \in Users : w.id = obs.user_id } :
            \A i \in DOMAIN obs.items :
                /\ obs.items[i].id \notin TooFarIds(u)
                /\ obs.items[i].raw_rule_score > 0

\* C24: in a propagation layer every edge (src, dst) adds one term
\* embedding[src] * invSqrtDeg[src] * invSqrtDeg[dst] into node dst, a node's
\* degree being the number of edges it is the source of plus the number it
\* is the target of, at least 1; a venue that is the target of user->venue
\* edges receives its users' embeddings and a node that is the target of no
\* edge receives nothing.
C24_TargetsAccumulateSources ==
    obs.kind = "propagate" =>
        \A n \in 0..(obs.num_nodes - 1) :
            /\ obs.deg[n] =
                  Max(1, Cardinality({ i \in DOMAIN obs.edge_index : obs.edge_index[i][1] = n })
                         + Cardinality({ i \in DOMAIN obs.edge_index : obs.edge_index[i][2] = n }))
            /\ \A m \in 0..(obs.num_nodes - 1) :
                  obs.acc[n][m] =
                      Cardinality({ i \in DOMAIN obs.edge_index :
                                      obs.edge_index[i][1] = m /\ obs.edge_index[i][2] = n })

\* the exact weight of a row, in 6000ths: 1.0 (3.0 for a save) plus
\* min(duration / 60, 2.0) for a view; 5.0 for an explicit interest, else
\* interest_score * 3.0; 10.0 for a booking
ExactRowWeight(kind, row) ==
    CASE kind = "interaction" ->
             (IF row.interaction_type = "save" THEN 18000 ELSE 6000)
             + (IF row.interaction_type = "view" THEN Min(100 * row.duration_seconds, 12000) ELSE 0)
      [] kind = "interest" ->
             IF row.explicitly_interested THEN 30000 ELSE 18 * row.interest_score
      [] kind = "booking" -> 60000

\* the sum of the exact weights of a set of rows of one kind
RECURSIVE ExactWeight(_, _)
ExactWeight(kind, rows) ==
    IF rows = {} THEN 0
    ELSE ExactRowWeight(kind, CHOOSE r \in rows : TRUE)
         + ExactWeight(kind, rows \ {CHOOSE r \in rows : TRUE})

\* min(floor(w), 10), raised to 1 when 0 < w < 1, for w in 6000ths
ExpectedEdges(w) ==
    IF w = 0 THEN 0 ELSE IF w < 6000 THEN 1 ELSE Min(w \div 6000, 10)

\* C25: a pair with both endpoints active gets min(floor(w), 10) parallel
\* user->venue edges, 1 when 0 < w < 1, w being the sum of the weights of
\* its interaction, interest and booking rows: between 0 and 10 edges, and
\* exactly 10 for a pair with a booking.
C25_EdgesPerPair ==
    (obs.kind = "edges" /\ obs.db.interactions \cup obs.db.interests # {}) =>
        /\ Len(obs.edge_index) =
              ExpectedEdges(ExactWeight("interaction", obs.db.interactions)
                            + ExactWeight("interest", obs.db.interests)
                            + ExactWeight("booking", obs.db.bookings))
        /\ Len(obs.edge_index) <= 10
        /\ obs.db.bookings # {} => Len(obs.edge_index) = 10

\* the (user index, venue index) pairs joined by a user->venue edge
UserVenuePairs(edge_index, num_users) ==
    { <<edge_index[i][1], edge_index[i][2] - num_users>> :
        i \in { j \in DOMAIN edge_index :
                  edge_index[j][1] < num_users /\ edge_index[j][2] >= num_users } }

\* C26: the positive training pairs are the distinct (user index, venue
\* index) pairs with at least one user->venue edge, each exactly once whatever
\* its multiplicity; friendship edges contribute none.
C26_PositivePairsDistinct ==
    obs.kind = "pairs" =>
        /\ Range(obs.positive_pairs) = UserVenuePairs(obs.edge_index, obs.num_users)
        /\ \A i, j \in DOMAIN obs.positive_pairs :
               obs.positive_pairs[i] = obs.positive_pairs[j] => i = j

\* the users build_graph(min_interactions) takes as active in database d
ActiveUserIds(d, min_interactions) ==
    { u \in { r.user_id : r \in d.interactions } :
        Cardinality({ r \in d.interactions : r.user_id = u }) >= min_interactions }
    \cup { r.user_id : r \in d.interests }

\* the index of active user id: its rank among the active ids
ActiveIndex(active, id) == Cardinality({ a \in active : a < id })

\* the user-user part of a built edge list
FriendEdges(o) ==
    IF "num_user_venue_edges" \in DOMAIN o.metadata
    THEN SubSeq(o.edge_index, o.metadata.num_user_venue_edges + 1, Len(o.edge_index))
    ELSE << >>

\* C27: with include_friendships every friendship row whose two endpoints
\* are active users contributes the edges (a,b) and (b,a) and no other row
\* contributes any; without the flag there is no user-user edge; and no edge
\* has a venue as its source.
C27_FriendshipEdgesSymmetric ==
    out.kind = "built" =>
        \E active \in {ActiveUserIds(db, out.min_interactions)} :
        \E rows \in {{ f \in db.friendships :
                         out.include_friendships /\ f.user_id \in active
                         /\ f.friend_id \in active }} :
            /\ \A i, j \in 0..MaxNodes :
                  Cardinality({ k \in DOMAIN FriendEdges(out) : FriendEdges(out)[k] = <<i, j>> })
                  = Cardinality({ f \in rows : ActiveIndex(active, f.user_id) = i
                                               /\ ActiveIndex(active, f.friend_id) = j })
                    + Cardinality({ f \in rows : ActiveIndex(active, f.friend_id) = i
                                                 /\ ActiveIndex(active, f.user_id) = j })
            /\ \A k \in DOMAIN FriendEdges(out) :
                  /\ FriendEdges(out)[k][1] \in 0..MaxNodes
                  /\ FriendEdges(out)[k][2] \in 0..MaxNodes
            /\ \A k \in DOMAIN out.edge_index :
                  out.edge_index[k][1] < out.metadata.num_users

\* the members of the group of a find_optimal_venue_for_group call whose
\* location is known
LocatedMembers ==
    SelectSeq(GroupMembers, LAMBDA u : u.latitude # NoCoord /\ u.longitude # NoCoord)

\* C28: the centroid of find_optimal_venue_for_group is the mean latitude and
\* the mean longitude over the group members with a known location, a
\* coordinate equal to 0 included, and the fallback location only when no
\* member has a location.
C28_CentroidOverLocatedMembers ==
    (obs.kind = "group" /\ obs.centroid_lat # NoCoord) =>
        /\ obs.centroid_lat = CentroidOf(Column(LocatedMembers, "latitude"), DefaultCentroidLat)
        /\ obs.centroid_lon = CentroidOf(Column(LocatedMembers, "longitude"), DefaultCentroidLon)

\* distance in metres from the centroid of a find_optimal_venue_for_group
\* call to venue v
CentroidDistance(v) ==
    haversine_distance(obs.centroid_lat, obs.centroid_lon, v.latitude, v.longitude)

\* venue v passes the capacity and the distance cutoff of the call
PassesCutoffs(v) ==
    /\ v.capacity >= Len(obs.user_ids)
    /\ CentroidDistance(v) <= AvgMaxDistance(Column(PrefsOf(GroupMembers), "max_distance"))

\* the five factors of venue v for the group of the call, in millionths
GroupFactors(v) ==
    LET prefs  == PrefsOf(GroupMembers)
        mins   == Column(prefs, "min_price_level")
        maxs   == Column(prefs, "max_price_level")
        counts == CuisineCounts(GroupMembers)
    IN  << One - DistanceRatio(CentroidDistance(v), Column(prefs, "max_distance")),
           IF /\ (IF mins = << >> THEN 1 ELSE SumSeq(mins)) <= v.price_level * Max(1, Len(mins))
              /\ v.price_level * Max(1, Len(maxs)) <= (IF maxs = << >> THEN 4 ELSE SumSeq(maxs))
           THEN One ELSE 300000,
           IF v.cuisine_type \in DOMAIN counts
           THEN (counts[v.cuisine_type] * One) \div Len(obs.user_ids) ELSE 300000,
           One,
           (v.rating * 1000) \div 5 >>

\* C29: for every group find_optimal_venue_for_group assembles, user-id
\* lists with duplicates or unknown ids included, a venue that passes both
\* cutoffs is scored the unweighted mean of its five factors, and that score
\* lies in [0, 1].
C29_GroupScoreIsMean ==
    (obs.kind = "group" /\ obs.centroid_lat # NoCoord) =>
        /\ obs.exc = ""
        /\ \A i \in DOMAIN GroupVenues :
              PassesCutoffs(GroupVenues[i]) =>
                  \E k \in DOMAIN obs.items :
                      /\ obs.items[k].id = GroupVenues[i].id
                      /\ obs.items[k].raw_score = SumSeq(GroupFactors(GroupVenues[i])) \div 5
                      /\ 0 <= obs.items[k].raw_score /\ obs.items[k].raw_score <= One

\* the batches of the current epoch that used row i of positive_pairs
BatchesUsing(i) ==
    { <<k, j>> \in (DOMAIN obs.batches) \X (1..Len(obs.positive_pairs)) :
        j \in DOMAIN obs.batches[k].rows /\ obs.batches[k].rows[j] = i }

\* C30: in every epoch the mini-batches partition the shuffled pairs: each
\* positive pair is in exactly one batch, with the negative pair sampled for
\* it (same user, venue index in 0..num_venues-1), no batch is empty, and
\* training ends after exactly epochs epochs with best_loss the least
\* per-epoch average loss.
C30_BatchesPartitionEpoch ==
    obs.kind = "training" =>
        /\ \A i \in DOMAIN obs.positive_pairs :
              /\ Cardinality(BatchesUsing(i)) <= 1
              /\ (obs.step = "batch" /\ obs.batch_idx = obs.num_batches) =>
                     Cardinality(BatchesUsing(i)) = 1
        /\ \A k \in DOMAIN obs.batches :
              /\ Len(obs.batches[k].batch_pos) > 0
              /\ Len(obs.batches[k].batch_neg) = Len(obs.batches[k].batch_pos)
              /\ \A j \in DOMAIN obs.batches[k].batch_pos :
                    /\ obs.batches[k].batch_pos[j] = obs.positive_pairs[obs.batches[k].rows[j]]
                    /\ obs.batches[k].batch_neg[j] = obs.negative_pairs[obs.batches[k].rows[j]]
                    /\ obs.batches[k].batch_neg[j][1] = obs.batches[k].batch_pos[j][1]
                    /\ obs.batches[k].batch_neg[j][2] \in 0..(obs.num_venues - 1)
        /\ obs.epoch <= obs.epochs
        /\ obs.step = "done" =>
              /\ obs.epoch = obs.epochs /\ Len(obs.losses) = obs.epochs
              /\ \E e \in DOMAIN obs.losses : obs.losses[e] = obs.best_loss
              /\ \A e \in DOMAIN obs.losses : ~FracLess(obs.losses[e], obs.best_loss)

\* three pairs trained for two epochs in batches of two, the second epoch
\* with the lower average loss
C30_Witness ==
    /\ obs.kind = "training" /\ obs.step = "done"
    /\ Len(obs.positive_pairs) = 3 /\ obs.batch_size = 2 /\ obs.epochs = 2
    /\ Len(obs.batches) = 2 /\ Len(obs.batches[2].batch_pos) = 1
    /\ obs.indices = <<3, 1, 2>>
    /\ FracLess(obs.losses[2], obs.losses[1]) /\ obs.best_loss = obs.losses[2]
====
